---- MODULE Spec2Model ----
(***************************************************************************)
(* Restaurant Web API: the restaurant schema (models/Restaurant.js), the   *)
(* db module (modules/db.js), the JSON router (routes/restaurants.js), the *)
(* browse form (routes/browse.js), restaurantService, the server process   *)
(* (server.js) and the sample-data scripts.                                *)
(*                                                                         *)
(* Text is a sequence of atoms.  An atom is an indivisible chunk of one or *)
(* more characters: a single character where a regular expression looks at *)
(* characters (ids, page, perPage, borough, phone, email, website), a word *)
(* where only whole words are ever searched for (messages, enum values).   *)
(* Concatenation is \o, String.prototype.includes is contiguous            *)
(* sub-sequence search, trim removes whitespace atoms at both ends.        *)
(***************************************************************************)
EXTENDS Integers, Sequences, FiniteSets, TLC

\* ------------------------------------------------------------------ bounds
NumClients == 2      \* request slots (requests that can be in flight at once)
MaxPageProbe == 10002 \* largest number whose decimal text is tried as page
MaxPerPageProbe == 102 \* largest number whose decimal text is tried as perPage

\* ------------------------------------------------------------------ text
SP == " "
BackTick == "[backtick]"     \* the atom of the backtick character
WhiteSpace == {" ", "\t"}
Digits == {"0", "1", "2", "3", "4", "5", "6", "7", "8", "9"}
LowerSeq ==
  <<"a", "b", "c", "d", "e", "f", "g", "h", "i", "j", "k", "l", "m",
    "n", "o", "p", "q", "r", "s", "t", "u", "v", "w", "x", "y", "z">>
UpperSeq ==
  <<"A", "B", "C", "D", "E", "F", "G", "H", "I", "J", "K", "L", "M",
    "N", "O", "P", "Q", "R", "S", "T", "U", "V", "W", "X", "Y", "Z">>
LowerLetters == {LowerSeq[i] : i \in 1..Len(LowerSeq)}
UpperLetters == {UpperSeq[i] : i \in 1..Len(UpperSeq)}
Letters == LowerLetters \cup UpperLetters
WordChars == Letters \cup Digits \cup {"_"}
HexChars == Digits \cup {"a", "b", "c", "d", "e", "f", "A", "B", "C", "D", "E", "F"}

\* String.prototype.toLowerCase on one atom.
LowerAtom(a) ==
  IF a \in UpperLetters
  THEN LowerSeq[CHOOSE i \in 1..Len(UpperSeq) : UpperSeq[i] = a]
  ELSE a

Lower(s) == [i \in 1..Len(s) |-> LowerAtom(s[i])]

\* String.prototype.trim.
RECURSIVE TrimLeft(_)
TrimLeft(s) == IF s # <<>> /\ Head(s) \in WhiteSpace THEN TrimLeft(Tail(s)) ELSE s

RECURSIVE TrimRight(_)
TrimRight(s) ==
  IF s # <<>> /\ s[Len(s)] \in WhiteSpace
  THEN TrimRight(SubSeq(s, 1, Len(s) - 1))
  ELSE s

Trim(s) == TrimRight(TrimLeft(s))

\* String.prototype.includes.
Includes(s, needle) ==
  \E i \in 0..(Len(s) - Len(needle)) :
    \A j \in 1..Len(needle) : s[i + j] = needle[j]

\* Array.prototype.join(', ') on a sequence of texts.
RECURSIVE Join(_)
Join(msgs) ==
  IF msgs = <<>> THEN <<>>
  ELSE IF Len(msgs) = 1 THEN msgs[1]
  ELSE msgs[1] \o <<",", SP>> \o Join(Tail(msgs))

\* Words separated by single spaces.
RECURSIVE Words(_)
Words(ws) ==
  IF ws = <<>> THEN <<>>
  ELSE IF Len(ws) = 1 THEN <<ws[1]>>
  ELSE <<ws[1], SP>> \o Words(Tail(ws))

Repeat(a, n) == [i \in 1..n |-> a]

\* /^\d+$/.test(s)
IsDigits(s) == Len(s) >= 1 /\ \A i \in 1..Len(s) : s[i] \in Digits

DigitValue(d) ==
  CASE d = "0" -> 0 [] d = "1" -> 1 [] d = "2" -> 2 [] d = "3" -> 3
    [] d = "4" -> 4 [] d = "5" -> 5 [] d = "6" -> 6 [] d = "7" -> 7
    [] d = "8" -> 8 [] d = "9" -> 9

\* parseInt(s, 10) of a digits-only text.
RECURSIVE ParseInt(_)
ParseInt(s) ==
  IF s = <<>> THEN 0
  ELSE 10 * ParseInt(SubSeq(s, 1, Len(s) - 1)) + DigitValue(s[Len(s)])

DigitAtom(n) ==
  CASE n = 0 -> "0" [] n = 1 -> "1" [] n = 2 -> "2" [] n = 3 -> "3"
    [] n = 4 -> "4" [] n = 5 -> "5" [] n = 6 -> "6" [] n = 7 -> "7"
    [] n = 8 -> "8" [] n = 9 -> "9"

\* The decimal text of a natural number, as a client writes it in a URL.
RECURSIVE Decimal(_)
Decimal(n) ==
  IF n < 10 THEN <<DigitAtom(n)>>
  ELSE Decimal(n \div 10) \o <<DigitAtom(n % 10)>>

\* ------------------------------------------------------------------ schema
\* models/Restaurant.js: restaurantSchema.
Days == {"monday", "tuesday", "wednesday", "thursday", "friday", "saturday", "sunday"}
NameMaxLength == 100
RatingMin == 1
RatingMax == 5
RatingDefault == 1
PhoneLength == 14
CuisineEnum ==
  {<<"Italian">>, <<"Chinese">>, <<"Mexican">>, <<"Indian">>, <<"American">>,
   <<"French">>, <<"Japanese">>, <<"Thai">>, <<"Mediterranean">>, <<"Other">>}
PriceRangeEnum == {<<"$">>, <<"$$">>, <<"$$$">>, <<"$$$$">>}
PriceRangeDefault == <<"$$">>
HoursDefault == <<"Closed">>

\* /^\(\d{3}\)\s\d{3}-\d{4}$/
PhoneMatch(s) ==
  /\ Len(s) = PhoneLength
  /\ s[1] = "("
  /\ \A i \in 2..4 : s[i] \in Digits
  /\ s[5] = ")"
  /\ s[6] \in WhiteSpace
  /\ \A i \in 7..9 : s[i] \in Digits
  /\ s[10] = "-"
  /\ \A i \in 11..14 : s[i] \in Digits

\* \w+([.-]?\w+)*
IsDotted(s) ==
  /\ Len(s) >= 1
  /\ \A i \in 1..Len(s) : s[i] \in WordChars \cup {".", "-"}
  /\ s[1] \in WordChars
  /\ s[Len(s)] \in WordChars
  /\ \A i \in 1..(Len(s) - 1) : s[i] \in WordChars \/ s[i + 1] \in WordChars

\* (\.\w{2,3})+
RECURSIVE IsDomainTail(_)
IsDomainTail(t) ==
  /\ Len(t) >= 3
  /\ t[1] = "."
  /\ \E k \in {2, 3} :
       /\ Len(t) >= 1 + k
       /\ \A i \in 2..(1 + k) : t[i] \in WordChars
       /\ \/ Len(t) = 1 + k
          \/ IsDomainTail(SubSeq(t, 2 + k, Len(t)))

\* /^\w+([.-]?\w+)*@\w+([.-]?\w+)*(\.\w{2,3})+$/
EmailMatch(s) ==
  \E p \in 1..Len(s) :
    /\ s[p] = "@"
    /\ IsDotted(SubSeq(s, 1, p - 1))
    /\ \E q \in (p + 1)..Len(s) :
         /\ IsDotted(SubSeq(s, p + 1, q))
         /\ IsDomainTail(SubSeq(s, q + 1, Len(s)))

\* /^https?:\/\/.+/
WebsiteMatch(s) ==
  \E n \in {4, 5} :
    /\ Len(s) >= n + 4
    /\ SubSeq(s, 1, 4) = <<"h", "t", "t", "p">>
    /\ n = 5 => s[5] = "s"
    /\ SubSeq(s, n + 1, n + 3) = <<":", "/", "/">>
    /\ s[n + 4] # "\n"

\* A value that may be missing is a set of at most one element: None is
\* undefined (the key is not there), Some(v) is the value v.
None == {}
Some(v) == {v}
The(o) == CHOOSE v \in o : TRUE

\* The setters of a String path: trim, then lowercase where declared.
SetTrim(o) == {Trim(v) : v \in o}
SetTrimLower(o) == {Lower(Trim(v)) : v \in o}
Default(o, d) == IF o = None THEN Some(d) ELSE o

AddressKeys == {"street", "city", "state", "zipCode", "borough"}

\* A variant of CastDocument: the email setter does not lower-case.
CastDocument_KeepCase(data) ==
  [ name |-> SetTrim(data.name),
    address |-> [k \in AddressKeys |-> SetTrim(data.address[k])],
    borough |-> SetTrim(data.borough),
    cuisine |-> SetTrim(data.cuisine),
    phone |-> SetTrim(data.phone),
    email |-> SetTrim(data.email),
    website |-> SetTrim(data.website),
    rating |-> Default(data.rating, RatingDefault),
    priceRange |-> Default(data.priceRange, PriceRangeDefault),
    hours |-> [d \in Days |-> Default(data.hours[d], HoursDefault)],
    isActive |-> Default(data.isActive, TRUE) ]

\* new Restaurant(data): the document built from a body, setters and defaults
\* applied, keys outside the schema dropped.
CastDocument(data) ==
  [ name |-> SetTrim(data.name),
    address |-> [k \in AddressKeys |-> SetTrim(data.address[k])],
    borough |-> SetTrim(data.borough),
    cuisine |-> SetTrim(data.cuisine),
    phone |-> SetTrim(data.phone),
    email |-> SetTrimLower(data.email),
    website |-> SetTrim(data.website),
    rating |-> Default(data.rating, RatingDefault),
    priceRange |-> Default(data.priceRange, PriceRangeDefault),
    hours |-> [d \in Days |-> Default(data.hours[d], HoursDefault)],
    isActive |-> Default(data.isActive, TRUE) ]

\* required: the value is missing or is the empty string.
Missing(o) == o = None \/ o = Some(<<>>)

\* mongoose's default message of an enum validator.
EnumMessage(value, path) ==
  <<BackTick>> \o value \o <<BackTick, SP>>
    \o Words(<<"is", "not", "a", "valid", "enum", "value", "for", "path">>)
    \o <<SP, BackTick, path, BackTick, ".">>

MsgNameRequired == Words(<<"Restaurant", "name", "is", "required">>)
MsgNameTooLong ==
  Words(<<"Restaurant", "name", "cannot", "exceed", "100", "characters">>)
MsgStreetRequired == Words(<<"Street", "address", "is", "required">>)
MsgCityRequired == Words(<<"City", "is", "required">>)
MsgStateRequired == Words(<<"State", "is", "required">>)
MsgZipRequired == Words(<<"Zip", "code", "is", "required">>)
MsgCuisineRequired == Words(<<"Cuisine", "type", "is", "required">>)
MsgPhoneRequired == Words(<<"Phone", "number", "is", "required">>)
MsgPhoneFormat ==
  Words(<<"Phone", "number", "must", "be", "in", "format", "(XXX)", "XXX-XXXX">>)
MsgEmailRequired == Words(<<"Email", "is", "required">>)
MsgEmailFormat == Words(<<"Please", "enter", "a", "valid", "email">>)
MsgWebsiteFormat ==
  Words(<<"Website", "must", "be", "a", "valid", "URL", "starting", "with",
          "http://", "or", "https://">>)
MsgRatingMin == Words(<<"Rating", "must", "be", "at", "least", "1">>)
MsgRatingMax == Words(<<"Rating", "cannot", "exceed", "5">>)

\* The validators of one path: the message of the first one that fails, as a
\* sequence of zero or one messages (required is checked first).
If(cond, msg) == IF cond THEN <<msg>> ELSE <<>>

ValidateName(o) ==
  IF Missing(o) THEN <<MsgNameRequired>>
  ELSE If(Len(The(o)) > NameMaxLength, MsgNameTooLong)

ValidateCuisine(o) ==
  IF Missing(o) THEN <<MsgCuisineRequired>>
  ELSE If(The(o) \notin CuisineEnum, EnumMessage(The(o), "cuisine"))

ValidatePhone(o) ==
  IF Missing(o) THEN <<MsgPhoneRequired>>
  ELSE If(~PhoneMatch(The(o)), MsgPhoneFormat)

ValidateEmail(o) ==
  IF Missing(o) THEN <<MsgEmailRequired>>
  ELSE If(~EmailMatch(The(o)), MsgEmailFormat)

\* A validator of a path that is not required is skipped for a missing value.
ValidateWebsite(o) ==
  IF Missing(o) THEN <<>> ELSE If(~WebsiteMatch(The(o)), MsgWebsiteFormat)

ValidateRating(o) ==
  IF The(o) < RatingMin THEN <<MsgRatingMin>>
  ELSE If(The(o) > RatingMax, MsgRatingMax)

ValidatePriceRange(o) ==
  If(The(o) \notin PriceRangeEnum, EnumMessage(The(o), "priceRange"))

\* doc.validate(): the messages of every path that fails, in schema order.
ValidateDocument(doc) ==
  ValidateName(doc.name)
    \o If(Missing(doc.address.street), MsgStreetRequired)
    \o If(Missing(doc.address.city), MsgCityRequired)
    \o If(Missing(doc.address.state), MsgStateRequired)
    \o If(Missing(doc.address.zipCode), MsgZipRequired)
    \o ValidateCuisine(doc.cuisine)
    \o ValidatePhone(doc.phone)
    \o ValidateEmail(doc.email)
    \o ValidateWebsite(doc.website)
    \o ValidateRating(doc.rating)
    \o ValidatePriceRange(doc.priceRange)

\* ------------------------------------------------------------------ db
\* modules/db.js over the 'restaurant' collection.  An ObjectId is written
\* as its 24 hexadecimal characters in lower case; the collection maps every
\* ObjectId to None or to Some(document).
IdLength == 24

\* /^[0-9a-fA-F]{24}$/, which is also what casts to an ObjectId.
IsObjectIdText(s) == Len(s) = IdLength /\ \A i \in 1..Len(s) : s[i] \in HexChars

\* The ObjectId a 24 character hexadecimal text casts to.
ToObjectId(s) == Lower(s)

HexValue(c) ==
  CASE c \in Digits -> DigitValue(c)
    [] c = "a" -> 10 [] c = "b" -> 11 [] c = "c" -> 12
    [] c = "d" -> 13 [] c = "e" -> 14 [] c = "f" -> 15

\* The order of sort({ _id: 1 }).
IdLess(a, b) ==
  \E i \in 1..IdLength :
    /\ \A j \in 1..(i - 1) : a[j] = b[j]
    /\ HexValue(a[i]) < HexValue(b[i])

\* A variant of the sort: descending.
RECURSIVE SortById_Descending(_)
SortById_Descending(ids) ==
  IF ids = {} THEN <<>>
  ELSE LET most == CHOOSE a \in ids : \A b \in ids \ {a} : IdLess(b, a)
       IN <<most>> \o SortById_Descending(ids \ {most})

\* sort({ _id: 1 })
RECURSIVE SortById(_)
SortById(ids) ==
  IF ids = {} THEN <<>>
  ELSE LET least == CHOOSE a \in ids : \A b \in ids \ {a} : IdLess(a, b)
       IN <<least>> \o SortById(ids \ {least})

Stored(coll) == {i \in DOMAIN coll : coll[i] # None}

\* What a db function hands to its caller: the documents it returns, or the
\* Error it throws.  cause records what went wrong where it went wrong; the
\* callers never read it.
NoError == [name |-> "", code |-> 0, message |-> <<>>, errors |-> <<>>]
Return(docs) == [ok |-> TRUE, docs |-> docs, error |-> NoError, cause |-> "none"]
Throw(name, code, message, cause) ==
  [ok |-> FALSE, docs |-> <<>>,
   error |-> [name |-> name, code |-> code, message |-> message, errors |-> <<>>],
   cause |-> cause]
\* mongoose's ValidationError: errors holds the message of every failed path.
ThrowValidationError(errs) ==
  [ok |-> FALSE, docs |-> <<>>,
   error |-> [name |-> "ValidationError", code |-> 0,
              message |-> Words(<<"Restaurant", "validation", "failed:">>)
                            \o <<SP>> \o Join(errs),
              errors |-> errs],
   cause |-> "validation"]
NewError(message, cause) == Throw("Error", 0, message, cause)
Entry(id, doc) == [_id |-> id, doc |-> doc]

MsgNotFound == Words(<<"Restaurant", "not", "found">>)
MsgInvalidId == Words(<<"Invalid", "restaurant", "ID", "format">>)
MsgIdRequired == Words(<<"Restaurant", "ID", "is", "required">>)
MsgValidationFailed(messages) ==
  Words(<<"Validation", "failed:">>) \o <<SP>> \o Join(messages)
MsgDuplicateKey(id) ==
  Words(<<"E11000", "duplicate", "key", "error", "collection:", "restaurant",
          "dup", "key:", "_id">>)
MsgImmutableId ==
  Words(<<"Performing", "an", "update", "on", "the", "path", "'_id'", "would",
          "modify", "the", "immutable", "field", "'_id'">>)
DuplicateKeyCode == 11000

\* A variant of Save: the storage engine fails after the insert has been
\* applied.
Save_FaultAfterInsert(coll, data, freshId, fault) ==
  LET doc == CastDocument(data)
      errs == ValidateDocument(doc)
      id == IF data._id = None THEN freshId ELSE ToObjectId(The(data._id))
  IN IF errs # <<>>
     THEN [collection |-> coll,
           result |-> ThrowValidationError(errs)]
     ELSE IF coll[id] # None
     THEN [collection |-> coll,
           result |-> Throw("MongoServerError", DuplicateKeyCode,
                            MsgDuplicateKey(id), "duplicate")]
     ELSE IF fault # None
     THEN [collection |-> [coll EXCEPT ![id] = Some(doc)],
           result |-> Throw("MongoNetworkError", 0, The(fault), "storage")]
     ELSE [collection |-> [coll EXCEPT ![id] = Some(doc)],
           result |-> Return(<<Entry(id, doc)>>)]

\* restaurant.save(): validation, then the insert.
Save(coll, data, freshId, fault) ==
  LET doc == CastDocument(data)
      errs == ValidateDocument(doc)
      id == IF data._id = None THEN freshId ELSE ToObjectId(The(data._id))
  IN IF errs # <<>>
     THEN [collection |-> coll,
           result |-> ThrowValidationError(errs)]
     ELSE IF fault # None
     THEN [collection |-> coll,
           result |-> Throw("MongoNetworkError", 0, The(fault), "storage")]
     ELSE IF coll[id] # None
     THEN [collection |-> coll,
           result |-> Throw("MongoServerError", DuplicateKeyCode,
                            MsgDuplicateKey(id), "duplicate")]
     ELSE [collection |-> [coll EXCEPT ![id] = Some(doc)],
           result |-> Return(<<Entry(id, doc)>>)]

addNewRestaurant(coll, data, freshId, fault) ==
  IF data = None
  THEN [collection |-> coll,
        result |-> NewError(
          Words(<<"Database", "error", "while", "adding", "restaurant:">>)
            \o <<SP>> \o Words(<<"Restaurant", "data", "is", "required">>),
          "argument")]
  ELSE LET saved == Save(coll, The(data), freshId, fault)
           error == saved.result.error
       IN IF saved.result.ok THEN saved
          ELSE [collection |-> saved.collection,
                result |->
                  IF error.name = "ValidationError"
                  THEN NewError(MsgValidationFailed(error.errors), saved.result.cause)
                  ELSE IF error.code = DuplicateKeyCode
                  THEN NewError(
                         Words(<<"Duplicate", "restaurant", "data", "detected">>),
                         saved.result.cause)
                  ELSE NewError(
                         Words(<<"Database", "error", "while", "adding",
                                 "restaurant:">>) \o <<SP>> \o error.message,
                         saved.result.cause)]

\* A regular expression with option 'i', for patterns made of literal
\* characters, '.', '*' after a character, '^' in front and '$' at the end.
\* One pattern character against one character of the text.
RegexCharI(p, a) ==
  IF p = "." THEN a # "\n" ELSE LowerAtom(p) = LowerAtom(a)

\* The pattern matches a prefix of the text.
RECURSIVE RegexHereI(_, _)
RegexHereI(pattern, text) ==
  IF pattern = <<>> THEN TRUE
  ELSE IF pattern = <<"$">> THEN text = <<>>
  ELSE IF Len(pattern) >= 2 /\ pattern[2] = "*"
  THEN \E k \in 0..Len(text) :
         /\ \A j \in 1..k : RegexCharI(pattern[1], text[j])
         /\ RegexHereI(SubSeq(pattern, 3, Len(pattern)), SubSeq(text, k + 1, Len(text)))
  ELSE /\ text # <<>>
       /\ RegexCharI(pattern[1], text[1])
       /\ RegexHereI(Tail(pattern), Tail(text))

\* The pattern matches somewhere in the text.
RegexSearchI(pattern, text) ==
  IF pattern # <<>> /\ pattern[1] = "^" THEN RegexHereI(Tail(pattern), text)
  ELSE \E k \in 0..Len(text) : RegexHereI(pattern, SubSeq(text, k + 1, Len(text)))

\* { field: { $regex: borough, $options: 'i' } }: the field is there and the
\* pattern matches somewhere in it.
RegexMatchI(o, pattern) ==
  o # None /\ RegexSearchI(pattern, The(o))

\* A variant of skip that skips one record less.
Skip_OneLess(s, n) ==
  IF n = 0 THEN s ELSE IF n - 1 >= Len(s) THEN <<>> ELSE SubSeq(s, n, Len(s))
Skip(s, n) == IF n >= Len(s) THEN <<>> ELSE SubSeq(s, n + 1, Len(s))
\* A variant of limit that lets one more through.
Limit_OneMore(s, n) == IF n + 1 >= Len(s) THEN s ELSE SubSeq(s, 1, n + 1)
Limit(s, n) == IF n >= Len(s) THEN s ELSE SubSeq(s, 1, n)
PerPageMax == 100

\* Restaurant.find(query).sort({ _id: 1 }).skip(skip).limit(limitNum).lean()
Find(coll, borough, skip, limitNum) ==
  LET matching ==
        {i \in Stored(coll) :
           \/ borough = None
           \/ RegexMatchI(The(coll[i]).address.borough, The(borough))
           \/ RegexMatchI(The(coll[i]).borough, The(borough))}
      sorted == SortById(matching)
  IN Limit(Skip([k \in 1..Len(sorted) |-> Entry(sorted[k], The(coll[sorted[k]]))],
                skip), limitNum)

getAllRestaurants(coll, page, perPage, borough, fault) ==
  LET pageNum == IF page = 0 THEN 1 ELSE page
      limitNum == IF perPage = 0 THEN 10 ELSE perPage
      prefix == Words(<<"Database", "error", "while", "fetching", "restaurants:">>)
                  \o <<SP>>
      filter == IF borough = Some(<<>>) THEN None ELSE borough
  IN IF pageNum < 1
     THEN NewError(prefix \o Words(<<"Page", "number", "must", "be", "greater",
                                     "than", "0">>), "argument")
     ELSE IF limitNum < 1 \/ limitNum > PerPageMax
     THEN NewError(prefix \o Words(<<"Items", "per", "page", "must", "be",
                                     "between", "1", "and", "100">>), "argument")
     ELSE IF fault # None
     THEN NewError(prefix \o The(fault), "storage")
     ELSE Return(Find(coll, filter, (pageNum - 1) * limitNum, limitNum))

\* The catch block shared by get, update and delete: a not-found Error is
\* thrown again as it is, a CastError becomes the invalid-id Error, anything
\* else is wrapped.
Rethrow(thrown, prefix) ==
  IF thrown.error.message = MsgNotFound THEN thrown
  ELSE IF thrown.error.name = "CastError" THEN NewError(MsgInvalidId, thrown.cause)
  ELSE NewError(prefix \o <<SP>> \o thrown.error.message, thrown.cause)

getRestaurantById(coll, Id, fault) ==
  LET prefix == Words(<<"Database", "error", "while", "fetching", "restaurant:">>)
      found ==
        IF Id = <<>> THEN NewError(MsgIdRequired, "argument")
        ELSE IF ~IsObjectIdText(Id)
        THEN Throw("CastError", 0, Words(<<"Cast", "to", "ObjectId", "failed">>),
                   "invalidkey")
        ELSE IF fault # None
        THEN Throw("MongoNetworkError", 0, The(fault), "storage")
        ELSE IF coll[ToObjectId(Id)] = None THEN NewError(MsgNotFound, "notfound")
        ELSE Return(<<Entry(ToObjectId(Id), The(coll[ToObjectId(Id)]))>>)
  IN IF found.ok THEN found ELSE Rethrow(found, prefix)

\* A variant of FindByIdAndUpdate with upsert: a document that is not there
\* is inserted.
FindByIdAndUpdate_Upsert(coll, data, Id, fault) ==
  LET doc == CastDocument(data)
      errs == ValidateDocument(doc)
      id == ToObjectId(Id)
  IN IF ~IsObjectIdText(Id)
     THEN [collection |-> coll,
           result |-> Throw("CastError", 0,
                            Words(<<"Cast", "to", "ObjectId", "failed">>),
                            "invalidkey")]
     ELSE IF errs # <<>>
     THEN [collection |-> coll,
           result |-> ThrowValidationError(errs)]
     ELSE IF fault # None
     THEN [collection |-> coll,
           result |-> Throw("MongoNetworkError", 0, The(fault), "storage")]
     ELSE IF data._id # None /\ ToObjectId(The(data._id)) # id
     THEN [collection |-> coll,
           result |-> Throw("MongoServerError", 66, MsgImmutableId, "immutable")]
     ELSE [collection |-> [coll EXCEPT ![id] = Some(doc)],
           result |-> Return(<<Entry(id, doc)>>)]

\* Restaurant.findByIdAndUpdate(Id, data, { new, runValidators, overwrite }):
\* one atomic replacement of the document, no upsert.
FindByIdAndUpdate(coll, data, Id, fault) ==
  LET doc == CastDocument(data)
      errs == ValidateDocument(doc)
      id == ToObjectId(Id)
  IN IF ~IsObjectIdText(Id)
     THEN [collection |-> coll,
           result |-> Throw("CastError", 0,
                            Words(<<"Cast", "to", "ObjectId", "failed">>),
                            "invalidkey")]
     ELSE IF errs # <<>>
     THEN [collection |-> coll,
           result |-> ThrowValidationError(errs)]
     ELSE IF fault # None
     THEN [collection |-> coll,
           result |-> Throw("MongoNetworkError", 0, The(fault), "storage")]
     ELSE IF coll[id] = None
     THEN [collection |-> coll, result |-> Return(<<>>)]
     ELSE IF data._id # None /\ ToObjectId(The(data._id)) # id
     THEN [collection |-> coll,
           result |-> Throw("MongoServerError", 66, MsgImmutableId, "immutable")]
     ELSE [collection |-> [coll EXCEPT ![id] = Some(doc)],
           result |-> Return(<<Entry(id, doc)>>)]

updateRestaurantById(coll, data, Id, fault) ==
  LET prefix == Words(<<"Database", "error", "while", "updating", "restaurant:">>)
  IN IF data = None
     THEN [collection |-> coll,
           result |-> NewError(prefix \o <<SP>>
                                 \o Words(<<"Update", "data", "is", "required">>),
                               "argument")]
     ELSE IF Id = <<>>
     THEN [collection |-> coll,
           result |-> NewError(prefix \o <<SP>> \o MsgIdRequired, "argument")]
     ELSE LET updated == FindByIdAndUpdate(coll, The(data), Id, fault)
              thrown == updated.result
          IN [collection |-> updated.collection,
              result |->
                IF thrown.ok
                THEN IF thrown.docs = <<>> THEN NewError(MsgNotFound, "notfound")
                     ELSE thrown
                ELSE IF thrown.error.message = MsgNotFound THEN thrown
                ELSE IF thrown.error.name = "ValidationError"
                THEN NewError(MsgValidationFailed(thrown.error.errors),
                              thrown.cause)
                ELSE Rethrow(thrown, prefix)]

\* A variant of FindByIdAndDelete: the document is found and left in place.
FindByIdAndDelete_Keep(coll, Id, fault) ==
  LET id == ToObjectId(Id)
  IN IF ~IsObjectIdText(Id) \/ fault # None \/ coll[id] = None
     THEN [collection |-> coll, result |-> Return(<<>>)]
     ELSE [collection |-> coll, result |-> Return(<<Entry(id, The(coll[id]))>>)]

\* Restaurant.findByIdAndDelete(Id): one atomic removal of the document.
FindByIdAndDelete(coll, Id, fault) ==
  LET id == ToObjectId(Id)
  IN IF ~IsObjectIdText(Id)
     THEN [collection |-> coll,
           result |-> Throw("CastError", 0,
                            Words(<<"Cast", "to", "ObjectId", "failed">>),
                            "invalidkey")]
     ELSE IF fault # None
     THEN [collection |-> coll,
           result |-> Throw("MongoNetworkError", 0, The(fault), "storage")]
     ELSE IF coll[id] = None
     THEN [collection |-> coll, result |-> Return(<<>>)]
     ELSE [collection |-> [coll EXCEPT ![id] = None],
           result |-> Return(<<Entry(id, The(coll[id]))>>)]

\* A variant of deleteRestaurantById: a null result is not turned into not-found.
deleteRestaurantById_NoNullCheck(coll, Id, fault) ==
  LET deleted == FindByIdAndDelete(coll, Id, fault)
  IN [collection |-> deleted.collection,
      result |-> IF deleted.result.ok THEN deleted.result
                 ELSE Rethrow(deleted.result, <<>>)]

deleteRestaurantById(coll, Id, fault) ==
  LET prefix == Words(<<"Database", "error", "while", "deleting", "restaurant:">>)
  IN IF Id = <<>>
     THEN [collection |-> coll,
           result |-> NewError(prefix \o <<SP>> \o MsgIdRequired, "argument")]
     ELSE LET deleted == FindByIdAndDelete(coll, Id, fault)
              thrown == deleted.result
          IN [collection |-> deleted.collection,
              result |->
                IF thrown.ok
                THEN IF thrown.docs = <<>> THEN NewError(MsgNotFound, "notfound")
                     ELSE thrown
                ELSE Rethrow(thrown, prefix)]

\* ------------------------------------------------------------------ router
\* routes/restaurants.js.  A response is what res.status(...).json(...) or
\* res.status(...).send() writes.
PageDefault == 1
PageMax == 10000
PerPageDefault == 10
BoroughMaxLength == 50
NoPagination == [page |-> 0, perPage |-> 0, totalReturned |-> 0, hasMore |-> FALSE]
NoQueryEcho == [page |-> 0, perPage |-> 0, borough |-> None]

Response(status, success, message) ==
  [status |-> status, json |-> TRUE, success |-> success, message |-> message,
   data |-> <<>>, pagination |-> NoPagination, filter |-> None,
   query |-> NoQueryEcho, error |-> None]
NoResponse == [Response(0, FALSE, <<>>) EXCEPT !.json = FALSE]

\* error: process.env.NODE_ENV === 'development' ? error.message : undefined
ErrorDetail(env, error) == IF env = "development" THEN Some(error.message) ELSE None

InternalError(what, env, error) ==
  [Response(500, FALSE,
            Words(<<"Internal", "server", "error", "while">>) \o <<SP>> \o what)
     EXCEPT !.error = ErrorDetail(env, error)]

AllowedParams == <<<<"page">>, <<"perPage">>, <<"borough">>>>

MsgInvalidParams(extraParamKeys) ==
  Words(<<"Invalid", "query", "parameters:">>) \o <<SP>>
    \o Join([k \in 1..Len(extraParamKeys) |-> <<extraParamKeys[k]>>])
    \o <<".", SP>> \o Words(<<"Allowed", "parameters:">>) \o <<SP>>
    \o Join(AllowedParams)
MsgPageNotInteger ==
  Words(<<"Page", "parameter", "must", "be", "a", "positive", "integer">>)
MsgPageTooSmall ==
  Words(<<"Page", "parameter", "must", "be", "greater", "than", "0">>)
MsgPageTooLarge == Words(<<"Page", "parameter", "cannot", "exceed", "10000">>)
MsgPerPageNotInteger ==
  Words(<<"perPage", "parameter", "must", "be", "a", "positive", "integer">>)
MsgPerPageTooSmall ==
  Words(<<"perPage", "parameter", "must", "be", "greater", "than", "0">>)
MsgPerPageTooLarge ==
  Words(<<"perPage", "parameter", "cannot", "exceed", "100", "items">>)
MsgBoroughNotString == Words(<<"Borough", "parameter", "must", "be", "a", "string">>)
MsgBoroughEmpty == Words(<<"Borough", "parameter", "cannot", "be", "empty">>)
MsgBoroughTooLong ==
  Words(<<"Borough", "parameter", "cannot", "exceed", "50", "characters">>)
MsgBoroughChars ==
  Words(<<"Borough", "parameter", "can", "only", "contain", "letters,",
          "spaces,", "hyphens,", "and", "apostrophes">>)

\* A variant of the pattern that admits a dot.
BoroughMatch_AllowDot(s) ==
  Len(s) >= 1
    /\ \A i \in 1..Len(s) : s[i] \in Letters \cup WhiteSpace \cup {"-", "'", "."}

\* /^[a-zA-Z\s\-']+$/
BoroughMatch(s) ==
  Len(s) >= 1 /\ \A i \in 1..Len(s) : s[i] \in Letters \cup WhiteSpace \cup {"-", "'"}

BadRequest(message) == Response(400, FALSE, message)

\* A variant of step 1 whose message names the first unknown key only.
CheckExtraParams_FirstKeyOnly(query) ==
  IF Len(query.extraParams) > 0
  THEN Some(BadRequest(MsgInvalidParams(<<query.extraParams[1]>>)))
  ELSE None

\* Step 1 of router.get('/'): the keys of req.query other than the three
\* allowed ones.  None when the check passes.
CheckExtraParams(query) ==
  IF Len(query.extraParams) > 0
  THEN Some(BadRequest(MsgInvalidParams(query.extraParams)))
  ELSE None

\* A variant of step 2 that refuses page 10000 as well.
CheckPage_Exclusive(query) ==
  IF query.page = None THEN None
  ELSE IF ~IsDigits(The(query.page)) THEN Some(BadRequest(MsgPageNotInteger))
  ELSE IF ParseInt(The(query.page)) < 1 THEN Some(BadRequest(MsgPageTooSmall))
  ELSE IF ParseInt(The(query.page)) >= PageMax THEN Some(BadRequest(MsgPageTooLarge))
  ELSE None

\* Step 2: the page parameter.
CheckPage(query) ==
  IF query.page = None THEN None
  ELSE IF ~IsDigits(The(query.page)) THEN Some(BadRequest(MsgPageNotInteger))
  ELSE IF ParseInt(The(query.page)) < 1 THEN Some(BadRequest(MsgPageTooSmall))
  ELSE IF ParseInt(The(query.page)) > PageMax THEN Some(BadRequest(MsgPageTooLarge))
  ELSE None

PageNum(query) ==
  IF query.page = None THEN PageDefault ELSE ParseInt(The(query.page))

\* A variant of step 3 without the lower limit.
CheckPerPage_NoLowerLimit(query) ==
  IF query.perPage = None THEN None
  ELSE IF ~IsDigits(The(query.perPage)) THEN Some(BadRequest(MsgPerPageNotInteger))
  ELSE IF ParseInt(The(query.perPage)) > PerPageMax
  THEN Some(BadRequest(MsgPerPageTooLarge))
  ELSE None

\* Step 3: the perPage parameter.
CheckPerPage(query) ==
  IF query.perPage = None THEN None
  ELSE IF ~IsDigits(The(query.perPage)) THEN Some(BadRequest(MsgPerPageNotInteger))
  ELSE IF ParseInt(The(query.perPage)) < 1 THEN Some(BadRequest(MsgPerPageTooSmall))
  ELSE IF ParseInt(The(query.perPage)) > PerPageMax
  THEN Some(BadRequest(MsgPerPageTooLarge))
  ELSE None

PerPageNum(query) ==
  IF query.perPage = None THEN PerPageDefault ELSE ParseInt(The(query.perPage))

\* A variant of step 4 without the length limit.
CheckBorough_NoLengthLimit(query) ==
  IF query.borough = None THEN None
  ELSE LET borough == The(query.borough)
           trimmedBorough == Trim(borough.text)
       IN IF ~borough.isString THEN Some(BadRequest(MsgBoroughNotString))
          ELSE IF Len(trimmedBorough) = 0 THEN Some(BadRequest(MsgBoroughEmpty))
          ELSE IF ~BoroughMatch(trimmedBorough) THEN Some(BadRequest(MsgBoroughChars))
          ELSE None

\* Step 4: the borough parameter, a [isString, text] value.
CheckBorough(query) ==
  IF query.borough = None THEN None
  ELSE LET borough == The(query.borough)
           trimmedBorough == Trim(borough.text)
       IN IF ~borough.isString THEN Some(BadRequest(MsgBoroughNotString))
          ELSE IF Len(trimmedBorough) = 0 THEN Some(BadRequest(MsgBoroughEmpty))
          ELSE IF Len(trimmedBorough) > BoroughMaxLength
          THEN Some(BadRequest(MsgBoroughTooLong))
          ELSE IF ~BoroughMatch(trimmedBorough) THEN Some(BadRequest(MsgBoroughChars))
          ELSE None

BoroughFilter(query) ==
  IF query.borough = None THEN None ELSE Some(Trim(The(query.borough).text))

\* A variant of the validation that checks perPage before page.
ValidateQuery_PerPageFirst(query) ==
  IF CheckExtraParams(query) # None THEN CheckExtraParams(query)
  ELSE IF CheckPerPage(query) # None THEN CheckPerPage(query)
  ELSE IF CheckPage(query) # None THEN CheckPage(query)
  ELSE CheckBorough(query)

\* The validation part of router.get('/'): the response of the first check
\* that fails, None when all four pass.
ValidateQuery(query) ==
  IF CheckExtraParams(query) # None THEN CheckExtraParams(query)
  ELSE IF CheckPage(query) # None THEN CheckPage(query)
  ELSE IF CheckPerPage(query) # None THEN CheckPerPage(query)
  ELSE CheckBorough(query)

\* A variant of the call that passes the borough as it was received.
ListArgs_RawBorough(query) ==
  [page |-> PageNum(query), perPage |-> PerPageNum(query),
   borough |-> IF query.borough = None THEN None
               ELSE Some(The(query.borough).text)]

\* db.getAllRestaurants(pageNum, perPageNum, boroughFilter)
ListArgs(query) ==
  [page |-> PageNum(query), perPage |-> PerPageNum(query),
   borough |-> BoroughFilter(query)]
NoArgs == [page |-> 0, perPage |-> 0, borough |-> None]

\* The rest of router.get('/'), after db.getAllRestaurants has settled.
ListRespond(args, result, env) ==
  IF result.ok
  THEN [Response(200, TRUE, <<>>) EXCEPT
          !.data = result.docs,
          !.pagination = [page |-> args.page, perPage |-> args.perPage,
                          totalReturned |-> Len(result.docs),
                          hasMore |-> Len(result.docs) = args.perPage],
          !.filter = IF args.borough # None /\ args.borough # Some(<<>>)
                     THEN args.borough ELSE None,
          !.query = args]
  ELSE InternalError(Words(<<"fetching", "restaurants">>), env, result.error)

\* A variant of the 404 message that names no id.
MsgIdNotFound_NoId(id) == Words(<<"Restaurant", "not", "found">>)

\* `Restaurant with ID ${req.params.id} not found`
MsgIdNotFound(id) ==
  Words(<<"Restaurant", "with", "ID">>) \o <<SP>> \o id \o <<SP>>
    \o Words(<<"not", "found">>)
NotFound(id) == Response(404, FALSE, MsgIdNotFound(id))

\* req.params.id.match(/^[0-9a-fA-F]{24}$/) fails.
CheckId(id) ==
  IF ~IsObjectIdText(id) THEN Some(BadRequest(MsgInvalidId)) ELSE None

\* router.get('/:id') after db.getRestaurantById has settled.
GetRespond(id, result, env) ==
  IF result.ok THEN [Response(200, TRUE, <<>>) EXCEPT !.data = result.docs]
  ELSE IF Includes(result.error.message, Words(<<"not", "found">>)) THEN NotFound(id)
  ELSE InternalError(Words(<<"fetching", "restaurant">>), env, result.error)

\* !req.body || Object.keys(req.body).length === 0
HasKeys(data) ==
  \/ data.extraKeys
  \/ \E k \in DOMAIN data \ {"extraKeys", "address", "hours"} : data[k] # None
  \/ \E k \in AddressKeys : data.address[k] # None
  \/ \E d \in Days : data.hours[d] # None

\* A variant of the body check that refuses an absent body only.
CheckBody_AbsentOnly(body, what) ==
  IF body = None
  THEN Some(BadRequest(Words(<<"Request", "body", "is", "required", "to">>)
                         \o <<SP>> \o what))
  ELSE None

CheckBody(body, what) ==
  IF body = None \/ ~HasKeys(The(body))
  THEN Some(BadRequest(Words(<<"Request", "body", "is", "required", "to">>)
                         \o <<SP>> \o what))
  ELSE None

MsgValidationError(error) ==
  Words(<<"Validation", "error">>) \o <<":", SP>> \o error.message

\* router.post('/') after db.addNewRestaurant has settled.
PostRespond(result, env) ==
  IF result.ok
  THEN [Response(201, TRUE, Words(<<"Restaurant", "created", "successfully">>))
          EXCEPT !.data = result.docs]
  ELSE IF \/ Includes(result.error.message, <<"validation">>)
          \/ Includes(result.error.message, <<"required">>)
          \/ Includes(result.error.message, <<"duplicate">>)
          \/ result.error.name = "ValidationError"
  THEN BadRequest(MsgValidationError(result.error))
  ELSE IF result.error.code = DuplicateKeyCode
  THEN BadRequest(Words(<<"Restaurant", "with", "this", "information", "already",
                          "exists">>))
  ELSE InternalError(Words(<<"creating", "restaurant">>), env, result.error)

\* router.put('/:id') after db.updateRestaurantById has settled.
PutRespond(id, result, env) ==
  IF result.ok
  THEN [Response(200, TRUE, Words(<<"Restaurant", "updated", "successfully">>))
          EXCEPT !.data = result.docs]
  ELSE IF Includes(result.error.message, Words(<<"not", "found">>)) THEN NotFound(id)
  ELSE IF \/ Includes(result.error.message, <<"validation">>)
          \/ Includes(result.error.message, <<"required">>)
          \/ result.error.name = "ValidationError"
  THEN BadRequest(MsgValidationError(result.error))
  ELSE InternalError(Words(<<"updating", "restaurant">>), env, result.error)

\* router.delete('/:id') after db.deleteRestaurantById has settled.
\* A variant of DeleteRespond: the commented-out alternative of the handler,
\* 200 with a confirmation message.
DeleteRespond_Confirm(id, result, env) ==
  IF result.ok THEN Response(200, TRUE, Words(<<"Restaurant", "deleted", "successfully">>))
  ELSE IF Includes(result.error.message, Words(<<"not", "found">>)) THEN NotFound(id)
  ELSE InternalError(Words(<<"deleting", "restaurant">>), env, result.error)

DeleteRespond(id, result, env) ==
  IF result.ok THEN [Response(204, FALSE, <<>>) EXCEPT !.json = FALSE]
  ELSE IF Includes(result.error.message, Words(<<"not", "found">>)) THEN NotFound(id)
  ELSE InternalError(Words(<<"deleting", "restaurant">>), env, result.error)

\* ------------------------------------------------------------------ browse
\* routes/browse.js: the form handler router.post('/').
\* The longest prefix of decimal digits.
RECURSIVE DigitPrefix(_)
DigitPrefix(s) ==
  IF s # <<>> /\ Head(s) \in Digits THEN <<Head(s)>> \o DigitPrefix(Tail(s)) ELSE <<>>

\* parseInt(value, 10): leading whitespace and one sign are skipped, the digits
\* that follow are read, whatever comes after them is ignored; None is NaN,
\* which is also what a missing field gives.
JsParseInt(value) ==
  IF value = None THEN None
  ELSE LET t == TrimLeft(The(value))
           signed == t # <<>> /\ Head(t) \in {"-", "+"}
           digits == DigitPrefix(IF signed THEN Tail(t) ELSE t)
       IN IF digits = <<>> THEN None
          ELSE IF signed /\ Head(t) = "-" THEN Some(0 - ParseInt(digits))
          ELSE Some(ParseInt(digits))

BrowsePageMax == 10000
BrowsePerPageMax == 100
BrowseBoroughMaxLength == 50
MsgBrowsePage ==
  Words(<<"Page", "must", "be", "a", "positive", "integer", "between", "1", "and",
          "10000">>)
MsgBrowsePerPage ==
  Words(<<"Per", "Page", "must", "be", "a", "positive", "integer", "between", "1",
          "and", "100">>)
MsgBrowseBorough ==
  Words(<<"Borough", "may", "only", "contain", "letters,", "spaces,", "hyphens,",
          "apostrophes", "and", "be", "at", "most", "50", "chars">>)
MsgBrowseError ==
  Words(<<"Internal", "server", "error.", "Please", "try", "again", "later.">>)

\* /^[a-zA-Z\s\-']*$/
BrowseBoroughMatch(s) ==
  \A i \in 1..Len(s) : s[i] \in Letters \cup WhiteSpace \cup {"-", "'"}

\* A variant of BrowseNumberBad that has no upper limit.
BrowseNumberBad_NoUpperLimit(num, max) == num = None \/ The(num) < 1

\* !Number.isInteger(num) || num < 1 || num > max
BrowseNumberBad(num, max) == num = None \/ The(num) < 1 \/ The(num) > max

\* A borough is looked at when it is a string with something left after trim.
BrowseBoroughGiven(form) ==
  form.borough # None /\ The(form.borough).isString
    /\ Len(Trim(The(form.borough).text)) > 0
BrowseBoroughBad(form) ==
  /\ BrowseBoroughGiven(form)
  /\ \/ Len(Trim(The(form.borough).text)) > BrowseBoroughMaxLength
     \/ ~BrowseBoroughMatch(Trim(The(form.borough).text))

\* errors.join('. ')
RECURSIVE JoinSentences(_)
JoinSentences(msgs) ==
  IF msgs = <<>> THEN <<>>
  ELSE IF Len(msgs) = 1 THEN msgs[1]
  ELSE msgs[1] \o <<".", SP>> \o JoinSentences(Tail(msgs))

BrowseErrors(form) ==
  If(BrowseNumberBad(JsParseInt(form.page), BrowsePageMax), MsgBrowsePage)
    \o If(BrowseNumberBad(JsParseInt(form.perPage), BrowsePerPageMax), MsgBrowsePerPage)
    \o If(BrowseBoroughBad(form), MsgBrowseBorough)

\* res.status(status).render('browse/index', { result, error })
Render(status, rows, error) ==
  [Response(status, status = 200, error) EXCEPT !.json = FALSE, !.data = rows]

\* pageNum, perPageNum, boroughFilter
BrowseArgs(form) ==
  [page |-> The(JsParseInt(form.page)), perPage |-> The(JsParseInt(form.perPage)),
   borough |-> IF BrowseBoroughGiven(form)
               THEN Some(Trim(The(form.borough).text)) ELSE None]

\* The rest of the handler, after db.getAllRestaurants has settled.
BrowseRespond(args, result) ==
  IF result.ok
  THEN [Render(200, result.docs, <<>>) EXCEPT
          !.pagination = [page |-> args.page, perPage |-> args.perPage,
                          totalReturned |-> Len(result.docs),
                          hasMore |-> Len(result.docs) = args.perPage],
          !.filter = args.borough]
  ELSE Render(500, <<>>, MsgBrowseError)

\* ------------------------------------------------------------------ inputs
\* The ObjectIds of the model and the texts a client sends as :id.
IdPrefix ==
  <<"5", "0", "7", "f", "1", "f", "7", "7", "b", "c", "f", "8",
    "6", "c", "d", "7", "9", "9", "4", "3", "9", "0", "1">>
IdPrefixUpper ==
  <<"5", "0", "7", "F", "1", "F", "7", "7", "B", "C", "F", "8",
    "6", "C", "D", "7", "9", "9", "4", "3", "9", "0", "1">>
ObjectIds == {IdPrefix \o <<h>> : h \in {"1", "2", "3", "a", "b"}}
\* The ids that clients name and that new documents are given.
ClientIds == {IdPrefix \o <<"1">>, IdPrefix \o <<"a">>}
IdTexts ==
  ClientIds \cup
    { IdPrefixUpper \o <<"1">>,                     \* the first id in upper case
      IdPrefix,                                     \* 23 characters
      IdPrefix \o <<"1", "1">>,                     \* 25 characters
      IdPrefix \o <<"g">>,                          \* not hexadecimal
      <<"n", "o", "t", "-", "a", "-", "v", "a", "l", "i", "d", "-", "i", "d">> }

GoodPhone ==
  <<"(", "2", "1", "2", ")", " ", "5", "5", "5", "-", "0", "1", "0", "1">>
GoodEmail == <<"a", "@", "b", ".", "c", "o">>

BaseBody ==
  [ _id |-> None,
    name |-> Some(<<"M", "a">>),
    address |-> [street |-> Some(<<"1">>), city |-> Some(<<"N", "Y">>),
                 state |-> Some(<<"N", "Y">>), zipCode |-> Some(<<"1">>),
                 borough |-> None],
    borough |-> None,
    cuisine |-> Some(<<"Italian">>),
    phone |-> Some(GoodPhone),
    email |-> Some(GoodEmail),
    website |-> None,
    rating |-> None,
    priceRange |-> None,
    hours |-> [d \in Days |-> None],
    isActive |-> None,
    extraKeys |-> FALSE ]

\* A valid body with every optional key, upper case in email and whitespace
\* around its texts.
MessyBody ==
  [BaseBody EXCEPT
     !.name = Some(<<" ", "M", "a", " ">>),
     !.address.borough = Some(<<"M", "a", "n", " ">>),
     !.borough = Some(<<" ", "B", "r", "o", "n", "x">>),
     !.cuisine = Some(<<" ", "Thai">>),
     !.phone = Some(<<" ">> \o GoodPhone),
     !.email = Some(<<"A", ".", "b", "@", "B", "-", "c", ".", "c", "o", ".", "u", "k", " ">>),
     !.website = Some(<<"h", "t", "t", "p", "s", ":", "/", "/", "x">>),
     !.rating = Some(5),
     !.priceRange = Some(<<"$">>),
     !.hours.monday = Some(<<"9-5">>),
     !.isActive = Some(FALSE),
     !.extraKeys = TRUE]

ManhattanBody == [BaseBody EXCEPT !.borough = Some(<<"M", "a", "n">>)]

ValidBodies ==
  {BaseBody, MessyBody, ManhattanBody}
    \cup {[BaseBody EXCEPT !._id = Some(i)] : i \in ClientIds}

\* Bodies that break one field rule, or several.
InvalidBodies ==
  { [BaseBody EXCEPT !.cuisine = Some(<<"Klingon">>)],
    [BaseBody EXCEPT !.cuisine = Some(Words(<<"not", "found">>))],
    [BaseBody EXCEPT !.cuisine = Some(<<"validation">>)],
    [BaseBody EXCEPT !.cuisine = None],
    [BaseBody EXCEPT !.phone = Some(<<"5", "5", "5", "-", "0", "1", "0", "1">>)],
    [BaseBody EXCEPT !.email = Some(<<"a", "@", "b">>)],
    [BaseBody EXCEPT !.email = Some(<<"a", ".", ".", "b", "@", "b", ".", "c", "o">>)],
    [BaseBody EXCEPT !.website = Some(<<"f", "t", "p", ":", "/", "/", "x">>)],
    [BaseBody EXCEPT !.rating = Some(0)],
    [BaseBody EXCEPT !.rating = Some(6)],
    [BaseBody EXCEPT !.priceRange = Some(<<"$$$$$">>)],
    [BaseBody EXCEPT !.name = Some(Repeat("x", NameMaxLength + 1))],
    [BaseBody EXCEPT !.name = Some(<<" ", " ">>)],
    [BaseBody EXCEPT !.address.street = None],
    [BaseBody EXCEPT !.name = None, !.phone = Some(<<"1">>)],
    [BaseBody EXCEPT !.cuisine = Some(<<"Klingon">>), !.rating = Some(9)],
    [BaseBody EXCEPT !.cuisine = Some(<<"Klingon">>),
                     !._id = Some(IdPrefix \o <<"1">>)] }

\* {} and a body with keys but none of the schema's.
EmptyBody ==
  [BaseBody EXCEPT
     !.name = None, !.cuisine = None, !.phone = None, !.email = None,
     !.address = [k \in AddressKeys |-> None]]
Bodies ==
  {None, Some(EmptyBody), Some([EmptyBody EXCEPT !.extraKeys = TRUE])}
    \cup {Some(b) : b \in ValidBodies \cup InvalidBodies}

\* Unexpected failures of the storage engine, by the text of their message.
FaultMessages ==
  { Words(<<"connection", "timed", "out">>),
    Words(<<"ns", "not", "found">>),
    Words(<<"authentication", "required">>) }
Faults == {None} \cup {Some(m) : m \in FaultMessages}

Text(s) == [isString |-> TRUE, text |-> s]
Query(page, perPage, borough, extraParams) ==
  [page |-> page, perPage |-> perPage, borough |-> borough,
   extraParams |-> extraParams]
NoQuery == Query(None, None, None, <<>>)

\* The list queries tried together with the other operations.
SmallQueries ==
  { NoQuery,
    Query(Some(<<"1">>), Some(<<"2">>), None, <<>>),
    Query(Some(<<"2">>), Some(<<"2">>), None, <<>>),
    Query(None, None, Some(Text(<<" ", "m", "A", "n">>)), <<>>),
    Query(Some(<<"0">>), None, None, <<"foo">>),
    Query(Some(<<"0">>), Some(<<"0">>), Some(Text(<<"1">>)), <<>>) }

\* No process of the repository is looked at; no call of restaurantService has
\* been made.
NoProcess == [program |-> "none"]
NoCall == [op |-> "none"]

\* ------------------------------------------------------------------ state
VARIABLES
  collection,   \* the 'restaurant' collection: ObjectId -> None or Some(document)
  reqs,         \* per request slot: the request, where its handler is, its response
  usedIds,      \* the ObjectIds generated or stored so far
  removed,      \* history: ids removed by a delete and not created again since
  deleted,      \* history: ids of removed whose DELETE has answered 204
  origin,       \* history: ObjectId -> the body whose POST made the stored document
  NODE_ENV,     \* process.env.NODE_ENV
  proc,         \* the node process: its program, where it is, its connection
  call          \* the last call of restaurantService: its arguments and result

vars == <<collection, reqs, usedIds, removed, deleted, origin, NODE_ENV, proc, call>>

Clients == 1..NumClients

IdleReq ==
  [ pc |-> "idle", method |-> "", id |-> <<>>, body |-> None, query |-> NoQuery,
    freshId |-> <<>>, args |-> NoArgs, result |-> Return(<<>>), res |-> NoResponse,
    called |-> FALSE,    \* history: the handler has called the db module
    wrote |-> FALSE,     \* history: the call has changed the collection
    existed |-> FALSE,   \* history: the document of :id was there on arrival
    late |-> {} ]        \* history: the ids in deleted on arrival, not created since

Init ==
  /\ collection = [i \in ObjectIds |-> None]
  /\ reqs = [c \in Clients |-> IdleReq]
  /\ usedIds = {}
  /\ removed = {}
  /\ deleted = {}
  /\ origin = [i \in ObjectIds |-> None]
  /\ NODE_ENV \in {"development", "production"}
  /\ proc = NoProcess
  /\ call = NoCall

\* A request whose handler answered before calling the db module.
Answered(req, res) == [req EXCEPT !.pc = "done", !.res = res]
\* A request whose handler awaits the db module.
Awaiting(req) == [req EXCEPT !.pc = "db", !.called = TRUE]
Arrived(method) == [IdleReq EXCEPT !.method = method, !.late = deleted]
ArrivedFor(method, id) ==
  [Arrived(method) EXCEPT
     !.id = id,
     !.existed = IsObjectIdText(id) /\ collection[ToObjectId(id)] # None]

\* A request takes the lowest free slot.
Free(c) == reqs[c].pc = "idle" /\ \A d \in 1..(c - 1) : reqs[d].pc # "idle"
Sequential(c) == \A d \in Clients \ {c} : reqs[d].pc = "idle"

\* router.get('/') up to its await.
ListReceive(c, query) ==
  /\ Free(c)
  /\ LET req == [Arrived("LIST") EXCEPT !.query = query]
         bad == ValidateQuery(query)
     IN reqs' = [reqs EXCEPT ![c] =
                   IF bad # None THEN Answered(req, The(bad))
                   ELSE Awaiting([req EXCEPT !.args = ListArgs(query)])]
  /\ UNCHANGED <<collection, usedIds, removed, deleted, origin, NODE_ENV, proc, call>>

\* The form handler up to its await; the form is kept where a list request
\* keeps its query.
BrowseReceive(c, form) ==
  /\ Free(c)
  /\ LET req == [Arrived("BROWSE") EXCEPT !.query = form]
         errors == BrowseErrors(form)
     IN reqs' = [reqs EXCEPT ![c] =
                   IF errors # <<>>
                   THEN Answered(req, Render(400, <<>>, JoinSentences(errors)))
                   ELSE Awaiting([req EXCEPT !.args = BrowseArgs(form)])]
  /\ UNCHANGED <<collection, usedIds, removed, deleted, origin, NODE_ENV, proc, call>>

\* router.get('/:id') up to its await.
GetReceive(c, id) ==
  /\ Free(c)
  /\ LET req == ArrivedFor("GET", id)
     IN reqs' = [reqs EXCEPT ![c] =
                   IF CheckId(id) # None THEN Answered(req, The(CheckId(id)))
                   ELSE Awaiting(req)]
  /\ UNCHANGED <<collection, usedIds, removed, deleted, origin, NODE_ENV, proc, call>>

\* router.post('/') up to its await; new Restaurant(data) generates the _id
\* of a body that brings none.
PostReceive(c, body, freshId) ==
  /\ Free(c)
  /\ freshId \notin usedIds
  /\ LET req == [Arrived("POST") EXCEPT !.body = body]
         bad == CheckBody(body, Words(<<"create", "a", "restaurant">>))
         generates == bad = None /\ The(body)._id = None
     IN /\ reqs' = [reqs EXCEPT ![c] =
                      IF bad # None THEN Answered(req, The(bad))
                      ELSE IF generates THEN Awaiting([req EXCEPT !.freshId = freshId])
                      ELSE Awaiting(req)]
        /\ usedIds' = IF generates THEN usedIds \cup {freshId} ELSE usedIds
  /\ UNCHANGED <<collection, removed, deleted, origin, NODE_ENV, proc, call>>

\* A variant of router.put('/:id') that looks at the body first.
PutReceive_BodyFirst(c, id, body) ==
  /\ Free(c)
  /\ LET req == [ArrivedFor("PUT", id) EXCEPT !.body = body]
         bad == CheckBody(body, Words(<<"update", "a", "restaurant">>))
     IN reqs' = [reqs EXCEPT ![c] =
                   IF bad # None THEN Answered(req, The(bad))
                   ELSE IF CheckId(id) # None THEN Answered(req, The(CheckId(id)))
                   ELSE Awaiting(req)]
  /\ UNCHANGED <<collection, usedIds, removed, deleted, origin, NODE_ENV, proc, call>>

\* router.put('/:id') up to its await.
PutReceive(c, id, body) ==
  /\ Free(c)
  /\ LET req == [ArrivedFor("PUT", id) EXCEPT !.body = body]
         bad == CheckBody(body, Words(<<"update", "a", "restaurant">>))
     IN reqs' = [reqs EXCEPT ![c] =
                   IF CheckId(id) # None THEN Answered(req, The(CheckId(id)))
                   ELSE IF bad # None THEN Answered(req, The(bad))
                   ELSE Awaiting(req)]
  /\ UNCHANGED <<collection, usedIds, removed, deleted, origin, NODE_ENV, proc, call>>

\* router.delete('/:id') up to its await.
DeleteReceive(c, id) ==
  /\ Free(c)
  /\ LET req == ArrivedFor("DELETE", id)
     IN reqs' = [reqs EXCEPT ![c] =
                   IF CheckId(id) # None THEN Answered(req, The(CheckId(id)))
                   ELSE Awaiting(req)]
  /\ UNCHANGED <<collection, usedIds, removed, deleted, origin, NODE_ENV, proc, call>>

Ids(docs) == {docs[k]._id : k \in 1..Len(docs)}
Settled(req, result, wrote) ==
  [req EXCEPT !.pc = "reply", !.result = result, !.wrote = wrote]

\* db.getAllRestaurants settles.
CallGetAllRestaurants(c, fault) ==
  /\ reqs[c].pc = "db" /\ reqs[c].method \in {"LIST", "BROWSE"}
  /\ reqs' = [reqs EXCEPT ![c] =
                Settled(@, getAllRestaurants(collection, @.args.page,
                                             @.args.perPage, @.args.borough, fault),
                        FALSE)]
  /\ UNCHANGED <<collection, usedIds, removed, deleted, origin, NODE_ENV, proc, call>>

\* db.getRestaurantById settles.
CallGetRestaurantById(c, fault) ==
  /\ reqs[c].pc = "db" /\ reqs[c].method = "GET"
  /\ reqs' = [reqs EXCEPT ![c] =
                Settled(@, getRestaurantById(collection, @.id, fault), FALSE)]
  /\ UNCHANGED <<collection, usedIds, removed, deleted, origin, NODE_ENV, proc, call>>

\* db.addNewRestaurant settles.
CallAddNewRestaurant(c, fault) ==
  /\ reqs[c].pc = "db" /\ reqs[c].method = "POST"
  /\ LET r == addNewRestaurant(collection, reqs[c].body, reqs[c].freshId, fault)
         created == Ids(r.result.docs)
     IN /\ collection' = r.collection
        /\ reqs' = [d \in Clients |->
                      IF d = c
                      THEN Settled(reqs[c], r.result, r.collection # collection)
                      ELSE [reqs[d] EXCEPT !.late = @ \ created]]
        /\ usedIds' = usedIds \cup created
        /\ removed' = removed \ created
        /\ deleted' = deleted \ created
        /\ origin' = [i \in ObjectIds |->
                        IF i \in created THEN reqs[c].body ELSE origin[i]]
  /\ UNCHANGED <<NODE_ENV, proc, call>>

\* db.updateRestaurantById settles.
CallUpdateRestaurantById(c, fault) ==
  /\ reqs[c].pc = "db" /\ reqs[c].method = "PUT"
  /\ LET r == updateRestaurantById(collection, reqs[c].body, reqs[c].id, fault)
     IN /\ collection' = r.collection
        /\ reqs' = [reqs EXCEPT ![c] =
                      Settled(@, r.result, r.collection # collection)]
        /\ origin' = [i \in ObjectIds |->
                        IF i \in Ids(r.result.docs) THEN None ELSE origin[i]]
  /\ UNCHANGED <<usedIds, removed, deleted, NODE_ENV, proc, call>>

\* db.deleteRestaurantById settles.
CallDeleteRestaurantById(c, fault) ==
  /\ reqs[c].pc = "db" /\ reqs[c].method = "DELETE"
  /\ LET r == deleteRestaurantById(collection, reqs[c].id, fault)
     IN /\ collection' = r.collection
        /\ reqs' = [reqs EXCEPT ![c] =
                      Settled(@, r.result, r.collection # collection)]
        /\ removed' = removed \cup Ids(r.result.docs)
        /\ origin' = [i \in ObjectIds |->
                        IF i \in Ids(r.result.docs) THEN None ELSE origin[i]]
  /\ UNCHANGED <<usedIds, deleted, NODE_ENV, proc, call>>

\* The handler's continuation after its await: the response.
Respond(req, env) ==
  CASE req.method = "LIST" -> ListRespond(req.args, req.result, env)
    [] req.method = "BROWSE" -> BrowseRespond(req.args, req.result)
    [] req.method = "GET" -> GetRespond(req.id, req.result, env)
    [] req.method = "POST" -> PostRespond(req.result, env)
    [] req.method = "PUT" -> PutRespond(req.id, req.result, env)
    [] req.method = "DELETE" -> DeleteRespond(req.id, req.result, env)

Reply(c) ==
  /\ reqs[c].pc = "reply"
  /\ LET res == Respond(reqs[c], NODE_ENV)
     IN /\ reqs' = [reqs EXCEPT ![c] = Answered(@, res)]
        /\ deleted' = IF reqs[c].method = "DELETE" /\ res.status = 204
                      THEN deleted \cup ({ToObjectId(reqs[c].id)} \cap removed)
                      ELSE deleted
  /\ UNCHANGED <<collection, usedIds, removed, origin, NODE_ENV, proc, call>>

\* The response has been delivered; the slot takes the next request.
Close(c) ==
  /\ reqs[c].pc = "done"
  /\ reqs' = [reqs EXCEPT ![c] = IdleReq]
  /\ UNCHANGED <<collection, usedIds, removed, deleted, origin, NODE_ENV, proc, call>>

\* One request at a time, every operation, every input.
Next ==
  \E c \in Clients :
    \/ Sequential(c) /\ \E q \in SmallQueries : ListReceive(c, q)
    \/ Sequential(c) /\ \E id \in IdTexts : GetReceive(c, id)
    \/ Sequential(c) /\ \E b \in Bodies, i \in ClientIds : PostReceive(c, b, i)
    \/ Sequential(c) /\ \E id \in IdTexts, b \in Bodies : PutReceive(c, id, b)
    \/ Sequential(c) /\ \E id \in IdTexts : DeleteReceive(c, id)
    \/ \E f \in Faults : CallGetAllRestaurants(c, f)
    \/ \E f \in Faults : CallGetRestaurantById(c, f)
    \/ \E f \in Faults : CallAddNewRestaurant(c, f)
    \/ \E f \in Faults : CallUpdateRestaurantById(c, f)
    \/ \E f \in Faults : CallDeleteRestaurantById(c, f)
    \/ Reply(c)
    \/ Close(c)

Spec == Init /\ [][Next]_vars

\* Requests in flight together on documents that are already stored: DELETE
\* and PUT of the same ids, every interleaving of their steps, each slot
\* used once.
ConcurrentIdTexts == ClientIds \cup {IdPrefixUpper \o <<"1">>}
ConcurrentBodies == {Some(ManhattanBody), Some(EmptyBody)}
StoredAtStart == SUBSET ClientIds

InitConcurrent ==
  /\ \E stored \in StoredAtStart :
       /\ collection = [i \in ObjectIds |->
                          IF i \in stored THEN Some(CastDocument(BaseBody)) ELSE None]
       /\ origin = [i \in ObjectIds |-> IF i \in stored THEN Some(BaseBody) ELSE None]
       /\ usedIds = stored
  /\ reqs = [c \in Clients |-> IdleReq]
  /\ removed = {}
  /\ deleted = {}
  /\ NODE_ENV = "production"
  /\ proc = NoProcess
  /\ call = NoCall

NextConcurrent ==
  \E c \in Clients :
    \/ \E id \in ConcurrentIdTexts : DeleteReceive(c, id)
    \/ \E id \in ConcurrentIdTexts, b \in ConcurrentBodies : PutReceive(c, id, b)
    \/ CallDeleteRestaurantById(c, None)
    \/ CallUpdateRestaurantById(c, None)
    \/ Reply(c)

SpecConcurrent == InitConcurrent /\ [][NextConcurrent]_vars

\* The list endpoint alone, over a stored collection and a wide set of query
\* strings: every decimal from 0 past the limits, and texts that are no
\* decimal.
NotNumbers ==
  { <<>>, <<"-", "1">>, <<"+", "1">>, <<"1", ".", "5">>, <<"1", "e", "3">>,
    <<" ", "1">>, <<"1", " ">>, <<"1", "\n">>, <<"a", "b", "c">>,
    <<"1", ",", "2">>, <<"0", "x", "1", "0">> }
PaddedNumbers ==
  { <<"0", "0", "7">>, <<"0", "0", "0">>, <<"0", "1", "0", "0", "0", "0">>,
    <<"0", "1", "0", "0", "0", "1">>, <<"0", "1", "0", "0">>, <<"0", "1", "0", "1">>,
    Repeat("9", 9) }
PageTexts ==
  {Decimal(n) : n \in 0..MaxPageProbe} \cup NotNumbers \cup PaddedNumbers
PerPageTexts ==
  {Decimal(n) : n \in 0..MaxPerPageProbe} \cup NotNumbers \cup PaddedNumbers
FewNumberTexts ==
  {None, Some(<<"1">>), Some(<<"2">>), Some(<<"0">>), Some(<<"a", "b", "c">>)}
BoroughTexts ==
  { Text(<<"M", "a", "n">>), Text(<<" ", "m", "A", "n", "\t">>), Text(<<>>),
    Text(<<" ", " ">>), Text(Repeat("a", BoroughMaxLength)),
    Text(<<" ">> \o Repeat("a", BoroughMaxLength) \o <<" ">>),
    Text(Repeat("a", BoroughMaxLength + 1)),
    Text(Repeat("1", BoroughMaxLength + 1)),
    Text(<<"M", "a", "n", "1">>), Text(<<"S", "t", ".", " ", "G">>),
    Text(<<"O", "'", "N", "-", "x", " ", "y">>),
    Text(<<"R", "O", "N">>), Text(<<"a", "n">>), Text(<<"n", "-", "X", " ">>),
    Text(<<"O", ".", "N">>), Text(<<"Q">>),
    [isString |-> FALSE, text |-> <<"M", "a", "n">>] }
ExtraParamLists == {<<>>, <<"foo">>, <<"limit", "foo">>}

ListQueries ==
  {Query(Some(p), pp, None, <<>>) : p \in PageTexts, pp \in {None, Some(<<"0">>)}}
    \cup {Query(p, Some(pp), b, <<>>) :
            p \in {None, Some(<<"0">>)}, pp \in PerPageTexts,
            b \in {None, Some(Text(<<"1">>))}}
    \cup {Query(p, pp, b, x) :
            p \in FewNumberTexts, pp \in FewNumberTexts,
            b \in {None} \cup {Some(t) : t \in BoroughTexts},
            x \in ExtraParamLists}

ONeillBody ==
  [BaseBody EXCEPT !.address.borough = Some(<<"O", "'", "N", "-", "x", " ", "y", " ", "z">>)]
StoredForList ==
  [i \in ObjectIds |->
     IF i = IdPrefix \o <<"2">> THEN None
     ELSE IF i \in ClientIds THEN Some(CastDocument(MessyBody))
     ELSE IF i = IdPrefix \o <<"3">> THEN Some(CastDocument(ONeillBody))
     ELSE Some(CastDocument(ManhattanBody))]

InitList ==
  /\ collection = StoredForList
  /\ reqs = [c \in Clients |-> IdleReq]
  /\ usedIds = Stored(StoredForList)
  /\ removed = {}
  /\ deleted = {}
  /\ origin = [i \in ObjectIds |-> None]
  /\ NODE_ENV = "production"
  /\ proc = NoProcess
  /\ call = NoCall

\* What the browse form posts: numbers, numbers with something around them,
\* texts that are no number, a missing field; boroughs as for the list.
BrowseNumberTexts ==
  { None, Some(<<>>), Some(<<"0">>), Some(<<"1">>), Some(<<"2">>), Some(<<"-", "1">>),
    Some(<<"+", "2">>), Some(<<" ", "5">>), Some(<<"1", ".", "5">>),
    Some(<<"1", "2", "a", "b", "c">>), Some(<<"a", "b", "c">>),
    Some(<<"1", "0", "0">>), Some(<<"1", "0", "1">>),
    Some(<<"1", "0", "0", "0", "0">>), Some(<<"1", "0", "0", "0", "1">>) }
BrowseBoroughTexts ==
  { None, Some(Text(<<>>)), Some(Text(<<" ", " ">>)),
    Some(Text(<<" ", "m", "A", "n", "\t">>)),
    Some(Text(<<"O", "'", "N", "e", "i", "l", "-", "x", " ", "y">>)),
    Some(Text(<<"Q", "1">>)),
    Some(Text(Repeat("a", BrowseBoroughMaxLength))),
    Some(Text(<<" ">> \o Repeat("a", BrowseBoroughMaxLength + 1))),
    Some([isString |-> FALSE, text |-> <<"M", "a", "n">>]) }
BrowseForms ==
  { Query(page, perPage, borough, <<>>) :
      page \in BrowseNumberTexts, perPage \in BrowseNumberTexts,
      borough \in BrowseBoroughTexts }

NextList ==
  \E c \in Clients :
    \/ Sequential(c) /\ Free(c) /\ \E q \in ListQueries : ListReceive(c, q)
    \/ Sequential(c) /\ Free(c) /\ \E form \in BrowseForms : BrowseReceive(c, form)
    \/ CallGetAllRestaurants(c, None)
    \/ Reply(c)
    \/ Close(c)

SpecList == InitList /\ [][NextList]_vars

\* The list endpoint over several stores that no request changes: two
\* requests one after the other, both answers kept.
PageHex == <<"0", "1", "2", "3", "4", "5", "6", "7", "8", "9", "a", "b", "c">>
\* Names in the opposite order of the ids.
PageNames == <<"m", "l", "k", "j", "i", "h", "g", "f", "e", "d", "c", "b", "a">>
PageIds == {IdPrefix \o <<PageHex[k]>> : k \in 1..Len(PageHex)}
PageName(i) == <<PageNames[CHOOSE k \in 1..Len(PageHex) : PageHex[k] = i[IdLength]]>>
Manhattan == <<"M", "a", "n", "h", "a", "t", "t", "a", "n">>
Bronx == <<"B", "r", "o", "n", "x">>
PageDoc(i, borough, addressBorough) ==
  CastDocument([BaseBody EXCEPT !.name = Some(PageName(i)),
                                !.borough = borough,
                                !.address.borough = addressBorough])

EmptyStore == [i \in PageIds |-> None]
\* Three records of Manhattan among ten others.
ManhattanStore ==
  [i \in PageIds |->
     CASE i[IdLength] = "2" -> Some(PageDoc(i, Some(Manhattan), None))
       [] i[IdLength] = "7" -> Some(PageDoc(i, None, Some(Lower(Manhattan))))
       [] i[IdLength] = "c" -> Some(PageDoc(i, Some(Manhattan), Some(Bronx)))
       [] i[IdLength] \in {"0", "4", "8"} -> Some(PageDoc(i, Some(Bronx), None))
       [] OTHER -> Some(PageDoc(i, None, None))]
\* Five records, two of Manhattan.
SmallStore ==
  [i \in PageIds |->
     CASE i[IdLength] = "1" -> Some(PageDoc(i, Some(Bronx), None))
       [] i[IdLength] = "3" -> Some(PageDoc(i, Some(Manhattan), None))
       [] i[IdLength] = "9" -> Some(PageDoc(i, None, None))
       [] i[IdLength] = "a" -> Some(PageDoc(i, None, Some(Manhattan)))
       [] i[IdLength] = "b" -> Some(PageDoc(i, Some(Bronx), Some(Bronx)))
       [] OTHER -> None]
PageStores == {EmptyStore, ManhattanStore, SmallStore}

PageQueries ==
  {Query(p, pp, b, <<>>) :
     p \in {None, Some(<<"1">>), Some(<<"2">>), Some(<<"3">>), Some(<<"4">>)},
     pp \in {None, Some(<<"1">>), Some(<<"2">>), Some(<<"4">>), Some(<<"5">>)},
     b \in {None, Some(Text(Manhattan)), Some(Text(<<"R", "O", "N">>)),
            Some(Text(<<"Q">>))}}

InitPages ==
  /\ collection \in PageStores
  /\ reqs = [c \in Clients |-> IdleReq]
  /\ usedIds = Stored(collection)
  /\ removed = {}
  /\ deleted = {}
  /\ origin = [i \in PageIds |-> None]
  /\ NODE_ENV = "production"
  /\ proc = NoProcess
  /\ call = NoCall

\* A first request, and a second one for the same listing once the first has
\* been answered.
FollowsUp(c, q) ==
  \/ c = 1
  \/ c = 2 /\ reqs[1].pc = "done" /\ q.borough = reqs[1].query.borough

NextPages ==
  \E c \in Clients :
    \/ Free(c) /\ \E q \in PageQueries : FollowsUp(c, q) /\ ListReceive(c, q)
    \/ CallGetAllRestaurants(c, None)
    \/ Reply(c)

SpecPages == InitPages /\ [][NextPages]_vars

\* ---------------------------------------------------------------- process
\* server.js and the sample-data scripts as node processes.  readyState is
\* mongoose.connection.readyState by name ("connected" is 1); isConnected is
\* the flag of modules/db.js; exit is the code the process ended with.
Signals == {"SIGINT", "SIGTERM"}
Process(program, uri) ==
  [ program |-> program,
    pc |-> "start",
    MONGODB_URI |-> uri,        \* process.env.MONGODB_URI is set
    isConnected |-> FALSE,
    readyState |-> "disconnected",
    listening |-> FALSE,        \* app.listen has been called
    exit |-> None,
    shutdown |-> {},            \* the signals whose handler awaits db.close()
    health |-> None,            \* the database field of the last GET /health
    data |-> <<>>,              \* sampleData of a script
    connect |-> None,           \* history: how mongoose.connect settled
    initialized |-> FALSE,      \* history: db.initialize has resolved
    closeCalled |-> FALSE,      \* history: mongoose.connection.close() was called
    closeReturned |-> FALSE ]   \* history: db.close() has returned normally

Running(program, pc) ==
  proc.program = program /\ proc.pc = pc /\ proc.exit = None
\* process.exit(code): nothing of the process runs afterwards.
Exit(p, code) == [p EXCEPT !.pc = "exited", !.exit = Some(code)]

\* startServer() up to its await: a missing connection string is thrown,
\* caught and ends the process with code 1.
StartServer ==
  /\ Running("server", "start")
  /\ proc' = IF ~proc.MONGODB_URI THEN Exit(proc, 1)
             ELSE [proc EXCEPT !.pc = "connect", !.readyState = "connecting"]
  /\ UNCHANGED <<collection, reqs, usedIds, removed, deleted, origin, NODE_ENV, call>>

\* A variant of ConnectSettles: app.listen does not wait for db.initialize.
ConnectSettles_ListenAnyway(ok) ==
  /\ Running("server", "connect")
  /\ proc' = IF ok
             THEN [proc EXCEPT !.pc = "serving", !.readyState = "connected",
                               !.isConnected = TRUE, !.connect = Some(TRUE),
                               !.initialized = TRUE, !.listening = TRUE]
             ELSE [Exit(proc, 1) EXCEPT !.readyState = "disconnected",
                                        !.connect = Some(FALSE),
                                        !.listening = TRUE]
  /\ UNCHANGED <<collection, reqs, usedIds, removed, deleted, origin, NODE_ENV, call>>

\* mongoose.connect settles inside db.initialize.  Resolved: the flag is set,
\* the 'error' and 'disconnected' handlers are registered, startServer goes
\* on to app.listen.  Rejected: db.initialize rethrows and the catch of
\* startServer ends the process with code 1.
ConnectSettles(ok) ==
  /\ Running("server", "connect")
  /\ proc' = IF ok
             THEN [proc EXCEPT !.pc = "serving", !.readyState = "connected",
                               !.isConnected = TRUE, !.connect = Some(TRUE),
                               !.initialized = TRUE, !.listening = TRUE]
             ELSE [Exit(proc, 1) EXCEPT !.readyState = "disconnected",
                                        !.connect = Some(FALSE)]
  /\ UNCHANGED <<collection, reqs, usedIds, removed, deleted, origin, NODE_ENV, call>>

\* mongoose.connection.on('error'): the flag is reset, the connection stays
\* as it is.
ErrorEvent ==
  /\ Running("server", "serving") /\ proc.readyState = "connected"
  /\ proc' = [proc EXCEPT !.isConnected = FALSE]
  /\ UNCHANGED <<collection, reqs, usedIds, removed, deleted, origin, NODE_ENV, call>>

\* The connection is lost: mongoose.connection.on('disconnected').
DisconnectedEvent ==
  /\ Running("server", "serving") /\ proc.readyState = "connected"
  /\ proc' = [proc EXCEPT !.readyState = "disconnected", !.isConnected = FALSE]
  /\ UNCHANGED <<collection, reqs, usedIds, removed, deleted, origin, NODE_ENV, call>>

\* The driver reconnects; no handler is registered for it, the flag stays.
Reconnected ==
  /\ Running("server", "serving") /\ proc.readyState = "disconnected"
  /\ proc.shutdown = {}
  /\ proc' = [proc EXCEPT !.readyState = "connected"]
  /\ UNCHANGED <<collection, reqs, usedIds, removed, deleted, origin, NODE_ENV, call>>

\* db.isConnected()
dbIsConnected(p) == p.isConnected /\ p.readyState = "connected"

\* app.get('/health')
Health ==
  /\ proc.program = "server" /\ proc.listening /\ proc.exit = None
  /\ proc' = [proc EXCEPT !.health =
                Some(IF dbIsConnected(proc) THEN "connected" ELSE "disconnected")]
  /\ UNCHANGED <<collection, reqs, usedIds, removed, deleted, origin, NODE_ENV, call>>

\* process.on('SIGINT') and process.on('SIGTERM') up to the await inside
\* db.close(): with the flag set the connection starts to close; with the
\* flag reset db.close() returns at once and the process ends with code 0.
Signal(sig) ==
  /\ proc.program = "server" /\ proc.pc \in {"connect", "serving"} /\ proc.exit = None
  /\ sig \notin proc.shutdown
  /\ proc' = IF proc.isConnected
             THEN [proc EXCEPT !.shutdown = @ \cup {sig},
                               !.readyState = "disconnecting",
                               !.closeCalled = TRUE]
             ELSE [Exit(proc, 0) EXCEPT !.closeReturned = TRUE]
  /\ UNCHANGED <<collection, reqs, usedIds, removed, deleted, origin, NODE_ENV, call>>

\* mongoose.connection.close() settles under a signal handler.
CloseSettles(sig, ok) ==
  /\ proc.program = "server" /\ proc.exit = None /\ sig \in proc.shutdown
  /\ proc' = IF ok
             THEN [Exit(proc, 0) EXCEPT !.readyState = "disconnected",
                                        !.isConnected = FALSE,
                                        !.closeReturned = TRUE]
             ELSE Exit(proc, 1)
  /\ UNCHANGED <<collection, reqs, usedIds, removed, deleted, origin, NODE_ENV, call>>

\* scripts/insertSampleData.js and scripts/insertSampleDataReplace.js.
Scripts == {"insertSampleData", "insertSampleDataReplace"}
\* sample-data.json: whether it is there, whether it parses, what it holds.
SampleFile(exists, parses, docs) == [exists |-> exists, parses |-> parses, docs |-> docs]
SampleFiles ==
  { SampleFile(FALSE, FALSE, <<>>),
    SampleFile(TRUE, FALSE, <<>>),
    SampleFile(TRUE, TRUE, <<BaseBody, ManhattanBody>>),
    SampleFile(TRUE, TRUE, <<BaseBody, [BaseBody EXCEPT !.cuisine = Some(<<"Klingon">>)]>>),
    SampleFile(TRUE, TRUE, <<ManhattanBody, [BaseBody EXCEPT !._id = Some(IdPrefix \o <<"1">>)]>>) }

\* The script up to its first await: a missing connection string is thrown;
\* the catch ends the process with code 1.
ScriptStart ==
  /\ proc.program \in Scripts /\ proc.pc = "start" /\ proc.exit = None
  /\ proc' = IF ~proc.MONGODB_URI THEN Exit(proc, 1)
             ELSE [proc EXCEPT !.pc = "connect", !.readyState = "connecting"]
  /\ UNCHANGED <<collection, reqs, usedIds, removed, deleted, origin, NODE_ENV, call>>

\* mongoose.connect settles; once connected the script reads and parses
\* sample-data.json and sets isActive on every restaurant of it.
ScriptConnectSettles(ok, file) ==
  /\ proc.program \in Scripts /\ proc.pc = "connect" /\ proc.exit = None
  /\ proc' =
       IF ~ok
       THEN [Exit(proc, 1) EXCEPT !.readyState = "disconnected",
                                  !.connect = Some(FALSE)]
       ELSE LET opened == [proc EXCEPT !.readyState = "connected",
                                       !.connect = Some(TRUE)]
            IN IF ~file.exists \/ ~file.parses THEN Exit(opened, 1)
               ELSE [opened EXCEPT
                       !.pc = IF proc.program = "insertSampleData"
                              THEN "insertMany" ELSE "countDocuments",
                       !.data = [k \in 1..Len(file.docs) |->
                                   [file.docs[k] EXCEPT !.isActive = Some(TRUE)]]]
  /\ UNCHANGED <<collection, reqs, usedIds, removed, deleted, origin, NODE_ENV, call>>

\* The connection is lost while the script runs.
ScriptDisconnected ==
  /\ proc.program \in Scripts /\ proc.exit = None
  /\ proc.pc \in {"countDocuments", "deleteMany", "insertMany"}
  /\ proc.readyState = "connected"
  /\ proc' = [proc EXCEPT !.readyState = "disconnected"]
  /\ UNCHANGED <<collection, reqs, usedIds, removed, deleted, origin, NODE_ENV, call>>

\* Restaurant.countDocuments() settles: before the deletion in the replacing
\* script, after the insertion in the other.
ScriptCount(fault) ==
  /\ proc.program \in Scripts /\ proc.pc = "countDocuments" /\ proc.exit = None
  /\ proc' = IF fault # None \/ proc.readyState # "connected" THEN Exit(proc, 1)
             ELSE [proc EXCEPT !.pc = IF proc.program = "insertSampleData"
                                      THEN "finally" ELSE "deleteMany"]
  /\ UNCHANGED <<collection, reqs, usedIds, removed, deleted, origin, NODE_ENV, call>>

\* Restaurant.deleteMany({}) settles.
ScriptDeleteMany(fault) ==
  /\ Running("insertSampleDataReplace", "deleteMany")
  /\ IF fault # None \/ proc.readyState # "connected"
     THEN proc' = Exit(proc, 1) /\ UNCHANGED collection
     ELSE /\ proc' = [proc EXCEPT !.pc = "insertMany"]
          /\ collection' = [i \in DOMAIN collection |-> None]
  /\ UNCHANGED <<reqs, usedIds, removed, deleted, origin, NODE_ENV, call>>

\* The ObjectId generated next.
FreshId(used) ==
  CHOOSE i \in ObjectIds \ used : \A j \in ObjectIds \ (used \cup {i}) : IdLess(i, j)

\* The ordered insert of the first n documents: it stops at the first
\* duplicate key.
RECURSIVE InsertOrdered(_, _, _, _)
InsertOrdered(coll, used, docs, n) ==
  IF n = 0 THEN [collection |-> coll, usedIds |-> used, result |-> Return(<<>>)]
  ELSE LET before == InsertOrdered(coll, used, docs, n - 1)
           data == docs[n]
           id == IF data._id = None THEN FreshId(before.usedIds)
                 ELSE ToObjectId(The(data._id))
       IN IF ~before.result.ok THEN before
          ELSE IF before.collection[id] # None
          THEN [before EXCEPT !.result =
                  Throw("MongoBulkWriteError", DuplicateKeyCode,
                        MsgDuplicateKey(id), "duplicate")]
          ELSE [collection |-> [before.collection EXCEPT ![id] = Some(CastDocument(data))],
                usedIds |-> before.usedIds \cup {id},
                result |-> Return(before.result.docs
                                    \o <<Entry(id, CastDocument(data))>>)]

\* Restaurant.insertMany(docs): every document is validated before anything
\* is sent; the storage engine may fail after the first n documents.
InsertMany(coll, used, docs, fault, n) ==
  LET errs == ValidateDocument(CastDocument(
                docs[CHOOSE k \in 1..Len(docs) :
                       ValidateDocument(CastDocument(docs[k])) # <<>>]))
      invalid == \E k \in 1..Len(docs) : ValidateDocument(CastDocument(docs[k])) # <<>>
  IN IF invalid
     THEN [collection |-> coll, usedIds |-> used,
           result |-> ThrowValidationError(errs)]
     ELSE IF fault # None
     THEN [InsertOrdered(coll, used, docs, n) EXCEPT
             !.result = Throw("MongoNetworkError", 0, The(fault), "storage")]
     ELSE InsertOrdered(coll, used, docs, Len(docs))

\* Restaurant.insertMany(restaurantsToInsert) settles.
ScriptInsertMany(fault, n) ==
  /\ proc.program \in Scripts /\ proc.pc = "insertMany" /\ proc.exit = None
  /\ Cardinality(ObjectIds \ usedIds) >= Len(proc.data)
  /\ IF proc.readyState # "connected"
     THEN proc' = Exit(proc, 1) /\ UNCHANGED <<collection, usedIds>>
     ELSE LET inserted == InsertMany(collection, usedIds, proc.data, fault, n)
          IN /\ collection' = inserted.collection
             /\ usedIds' = inserted.usedIds
             /\ proc' = IF ~inserted.result.ok THEN Exit(proc, 1)
                        ELSE [proc EXCEPT !.pc = IF proc.program = "insertSampleData"
                                                 THEN "countDocuments" ELSE "finally"]
  /\ UNCHANGED <<reqs, removed, deleted, origin, NODE_ENV, call>>

\* finally: the connection is closed if it is open.  Reached only when the
\* try block has ended without an error: the catch block ends the process.
ScriptFinally ==
  /\ proc.program \in Scripts /\ proc.pc = "finally" /\ proc.exit = None
  /\ proc' = IF proc.readyState = "connected"
             THEN [proc EXCEPT !.pc = "closing", !.readyState = "disconnecting",
                               !.closeCalled = TRUE]
             ELSE Exit(proc, 0)
  /\ UNCHANGED <<collection, reqs, usedIds, removed, deleted, origin, NODE_ENV, call>>

\* mongoose.connection.close() settles; a rejection is unhandled.
ScriptCloseSettles(ok) ==
  /\ proc.program \in Scripts /\ proc.pc = "closing" /\ proc.exit = None
  /\ proc' = IF ok THEN [Exit(proc, 0) EXCEPT !.readyState = "disconnected"]
             ELSE Exit(proc, 1)
  /\ UNCHANGED <<collection, reqs, usedIds, removed, deleted, origin, NODE_ENV, call>>

\* One process: the server or one of the scripts, over a collection that
\* holds nothing or one restaurant.
InitProcess ==
  /\ \E stored \in SUBSET {IdPrefix \o <<"1">>} :
       /\ collection = [i \in ObjectIds |->
                          IF i \in stored THEN Some(CastDocument(BaseBody)) ELSE None]
       /\ usedIds = stored
  /\ reqs = [c \in Clients |-> IdleReq]
  /\ removed = {}
  /\ deleted = {}
  /\ origin = [i \in ObjectIds |-> None]
  /\ NODE_ENV = "production"
  /\ \E program \in {"server"} \cup Scripts, uri \in BOOLEAN :
       proc = Process(program, uri)
  /\ call = NoCall

NextProcess ==
  \/ StartServer
  \/ \E ok \in BOOLEAN : ConnectSettles(ok)
  \/ ErrorEvent
  \/ DisconnectedEvent
  \/ Reconnected
  \/ Health
  \/ \E sig \in Signals : Signal(sig)
  \/ \E sig \in Signals, ok \in BOOLEAN : CloseSettles(sig, ok)
  \/ ScriptStart
  \/ \E ok \in BOOLEAN, file \in SampleFiles : ScriptConnectSettles(ok, file)
  \/ ScriptDisconnected
  \/ \E fault \in Faults : ScriptCount(fault)
  \/ \E fault \in Faults : ScriptDeleteMany(fault)
  \/ \E fault \in Faults, n \in 0..1 : ScriptInsertMany(fault, n)
  \/ ScriptFinally
  \/ \E ok \in BOOLEAN : ScriptCloseSettles(ok)

SpecProcess == InitProcess /\ [][NextProcess]_vars

\* ---------------------------------------------------------------- service
\* services/restaurantService.js over the same collection.
\* The keys of an update object: a nested object is given when one of its
\* keys is.
GivenNested(o) == \E k \in DOMAIN o : o[k] # None

\* { $set: data } on a stored document: every key of the update replaces the
\* value of its path, a nested object as a whole; no default is applied.
ApplySet(doc, data) ==
  [ name |-> IF data.name = None THEN doc.name ELSE SetTrim(data.name),
    address |-> IF ~GivenNested(data.address) THEN doc.address
                ELSE [k \in AddressKeys |-> SetTrim(data.address[k])],
    borough |-> IF data.borough = None THEN doc.borough ELSE SetTrim(data.borough),
    cuisine |-> IF data.cuisine = None THEN doc.cuisine ELSE SetTrim(data.cuisine),
    phone |-> IF data.phone = None THEN doc.phone ELSE SetTrim(data.phone),
    email |-> IF data.email = None THEN doc.email ELSE SetTrimLower(data.email),
    website |-> IF data.website = None THEN doc.website ELSE SetTrim(data.website),
    rating |-> IF data.rating = None THEN doc.rating ELSE data.rating,
    priceRange |-> IF data.priceRange = None THEN doc.priceRange ELSE data.priceRange,
    hours |-> IF ~GivenNested(data.hours) THEN doc.hours ELSE data.hours,
    isActive |-> IF data.isActive = None THEN doc.isActive ELSE data.isActive ]

\* runValidators on an update: the validators of the paths the update sets.
ValidateUpdate(data) ==
  (IF data.name = None THEN <<>> ELSE ValidateName(SetTrim(data.name)))
    \o If(data.address.street # None /\ Missing(SetTrim(data.address.street)),
          MsgStreetRequired)
    \o If(data.address.city # None /\ Missing(SetTrim(data.address.city)),
          MsgCityRequired)
    \o If(data.address.state # None /\ Missing(SetTrim(data.address.state)),
          MsgStateRequired)
    \o If(data.address.zipCode # None /\ Missing(SetTrim(data.address.zipCode)),
          MsgZipRequired)
    \o (IF data.cuisine = None THEN <<>> ELSE ValidateCuisine(SetTrim(data.cuisine)))
    \o (IF data.phone = None THEN <<>> ELSE ValidatePhone(SetTrim(data.phone)))
    \o (IF data.email = None THEN <<>> ELSE ValidateEmail(SetTrimLower(data.email)))
    \o (IF data.website = None THEN <<>> ELSE ValidateWebsite(SetTrim(data.website)))
    \o (IF data.rating = None THEN <<>> ELSE ValidateRating(data.rating))
    \o (IF data.priceRange = None THEN <<>> ELSE ValidatePriceRange(data.priceRange))

\* Restaurant.findByIdAndUpdate(id, data, { new: true, runValidators }): one
\* atomic $set on the document, no upsert.  touched holds the ids whose
\* updatedAt the call has set (timestamps: true).
FindByIdAndUpdateSet(coll, Id, data, runValidators, fault) ==
  LET id == ToObjectId(Id)
      errs == ValidateUpdate(data)
      Untouched(result) == [collection |-> coll, touched |-> {}, result |-> result]
  IN IF ~IsObjectIdText(Id)
     THEN Untouched(Throw("CastError", 0,
                          Words(<<"Cast", "to", "ObjectId", "failed">>), "invalidkey"))
     ELSE IF runValidators /\ errs # <<>>
     THEN Untouched(ThrowValidationError(errs))
     ELSE IF fault # None
     THEN Untouched(Throw("MongoNetworkError", 0, The(fault), "storage"))
     ELSE IF coll[id] = None
     THEN Untouched(Return(<<>>))
     ELSE IF data._id # None /\ ToObjectId(The(data._id)) # id
     THEN Untouched(Throw("MongoServerError", 66, MsgImmutableId, "immutable"))
     ELSE LET doc == ApplySet(The(coll[id]), data)
          IN [collection |-> [coll EXCEPT ![id] = Some(doc)],
              touched |-> {id},
              result |-> Return(<<Entry(id, doc)>>)]

\* catch (error): a ValidationError is rewritten from its messages, any other
\* error is wrapped with the prefix of the function.
ServiceRethrow(thrown, prefix) ==
  IF thrown.error.name = "ValidationError"
  THEN NewError(Words(<<"Validation", "error:">>) \o <<SP>>
                  \o Join(thrown.error.errors), thrown.cause)
  ELSE NewError(prefix \o <<SP>> \o thrown.error.message, thrown.cause)

createRestaurant(coll, data, freshId, fault) ==
  LET saved == Save(coll, data, freshId, fault)
  IN [collection |-> saved.collection,
      touched |-> Ids(saved.result.docs),
      result |-> IF saved.result.ok THEN saved.result
                 ELSE ServiceRethrow(saved.result,
                        Words(<<"Error", "creating", "restaurant:">>))]

updateRestaurant(coll, Id, data, fault) ==
  LET updated == FindByIdAndUpdateSet(coll, Id, data, TRUE, fault)
      prefix == Words(<<"Error", "updating", "restaurant:">>)
  IN [updated EXCEPT !.result =
        IF ~@.ok THEN ServiceRethrow(@, prefix)
        ELSE IF @.docs = <<>>
        THEN NewError(prefix \o <<SP>> \o MsgNotFound, "notfound")
        ELSE @]

\* A variant of deleteRestaurant: the hard delete of the db module.
deleteRestaurant_Hard(coll, Id, fault) ==
  LET removal == FindByIdAndDelete(coll, Id, fault)
      prefix == Words(<<"Error", "deleting", "restaurant:">>)
  IN [collection |-> removal.collection,
      touched |-> {},
      result |-> IF ~removal.result.ok
                 THEN NewError(prefix \o <<SP>> \o removal.result.error.message,
                               removal.result.cause)
                 ELSE IF removal.result.docs = <<>>
                 THEN NewError(prefix \o <<SP>> \o MsgNotFound, "notfound")
                 ELSE removal.result]

\* The soft delete: { isActive: false } is set, without validators.
deleteRestaurant(coll, Id, fault) ==
  LET updated == FindByIdAndUpdateSet(coll, Id,
                   [EmptyBody EXCEPT !.isActive = Some(FALSE)], FALSE, fault)
      prefix == Words(<<"Error", "deleting", "restaurant:">>)
  IN [updated EXCEPT !.result =
        IF ~@.ok THEN NewError(prefix \o <<SP>> \o @.error.message, @.cause)
        ELSE IF @.docs = <<>>
        THEN NewError(prefix \o <<SP>> \o MsgNotFound, "notfound")
        ELSE @]

\* restaurantService.getRestaurantById
serviceGetRestaurantById(coll, Id, fault) ==
  LET id == ToObjectId(Id)
      prefix == Words(<<"Error", "fetching", "restaurant:">>) \o <<SP>>
  IN IF ~IsObjectIdText(Id)
     THEN NewError(prefix \o Words(<<"Cast", "to", "ObjectId", "failed">>),
                   "invalidkey")
     ELSE IF fault # None THEN NewError(prefix \o The(fault), "storage")
     ELSE IF coll[id] = None THEN NewError(prefix \o MsgNotFound, "notfound")
     ELSE Return(<<Entry(id, The(coll[id]))>>)

\* The order of strings in a sort: code unit by code unit, upper case before
\* lower case; a prefix comes first.
CodeOrder == UpperSeq \o LowerSeq
Code(a) ==
  IF a \in Letters THEN CHOOSE i \in 1..Len(CodeOrder) : CodeOrder[i] = a ELSE 0
RECURSIVE TextLess(_, _)
TextLess(a, b) ==
  IF b = <<>> THEN FALSE
  ELSE IF a = <<>> THEN TRUE
  ELSE IF Code(Head(a)) # Code(Head(b)) THEN Code(Head(a)) < Code(Head(b))
  ELSE TextLess(Tail(a), Tail(b))

\* sort({ name: 1 }); documents of the same name stay in storage order.
RECURSIVE SortByName(_, _)
SortByName(coll, ids) ==
  IF ids = {} THEN <<>>
  ELSE LET Before(a, b) ==
             \/ TextLess(The(The(coll[a]).name), The(The(coll[b]).name))
             \/ /\ ~TextLess(The(The(coll[b]).name), The(The(coll[a]).name))
                /\ IdLess(a, b)
           least == CHOOSE a \in ids : \A b \in ids \ {a} : Before(a, b)
       IN <<least>> \o SortByName(coll, ids \ {least})

\* The filters a caller hands to restaurantService.getAllRestaurants: none,
\* or one on isActive.
ServiceFilters == {None, Some(TRUE), Some(FALSE)}
ServiceLimitDefault == 10

\* restaurantService.getAllRestaurants(filters) with the default options:
\* page 1, limit 10, by name.
serviceGetAllRestaurants(coll, isActive, fault) ==
  LET matching == {i \in Stored(coll) :
                     isActive = None \/ The(coll[i]).isActive = isActive}
      sorted == SortByName(coll, matching)
      found == [k \in 1..Len(sorted) |-> Entry(sorted[k], The(coll[sorted[k]]))]
  IN IF fault # None
     THEN NewError(Words(<<"Error", "fetching", "restaurants:">>) \o <<SP>>
                     \o The(fault), "storage")
     ELSE Return(Limit(Skip(found, 0), ServiceLimitDefault))

\* The callers of restaurantService and of the db module, one call at a time.
ServiceIds == ClientIds \cup {IdPrefix}
ServiceCreates == {MessyBody, [BaseBody EXCEPT !.cuisine = Some(<<"Klingon">>)]}
ServiceUpdates ==
  { [EmptyBody EXCEPT !.hours.monday = Some(<<"9-5">>)],
    [EmptyBody EXCEPT !.cuisine = Some(<<"Klingon">>)],
    [EmptyBody EXCEPT !.name = Some(<<"A", "l">>), !.phone = Some(<<"1">>)] }
ServiceFaults == {None, Some(Words(<<"connection", "timed", "out">>))}

\* The call that has returned: what it was given, what it returned, the
\* collection it found, the ids whose updatedAt it has set.
Called(op, id, data, out) ==
  [ op |-> op, id |-> id, data |-> data, result |-> out.result,
    before |-> collection, touched |-> out.touched ]
Read(result) == [result |-> result, touched |-> {}]

ServiceCreate(data, freshId, fault) ==
  /\ freshId \notin usedIds
  /\ LET out == createRestaurant(collection, data, freshId, fault)
     IN /\ collection' = out.collection
        /\ usedIds' = usedIds \cup {freshId}
        /\ call' = Called("createRestaurant", freshId, Some(data), out)
  /\ UNCHANGED <<reqs, removed, deleted, origin, NODE_ENV, proc>>

ServiceUpdate(Id, data, fault) ==
  /\ LET out == updateRestaurant(collection, Id, data, fault)
     IN /\ collection' = out.collection
        /\ call' = Called("updateRestaurant", Id, Some(data), out)
  /\ UNCHANGED <<reqs, usedIds, removed, deleted, origin, NODE_ENV, proc>>

ServiceDelete(Id, fault) ==
  /\ LET out == deleteRestaurant(collection, Id, fault)
     IN /\ collection' = out.collection
        /\ call' = Called("deleteRestaurant", Id, None, out)
  /\ UNCHANGED <<reqs, usedIds, removed, deleted, origin, NODE_ENV, proc>>

ServiceGet(Id, fault) ==
  /\ call' = Called("getRestaurantById", Id, None,
                    Read(serviceGetRestaurantById(collection, Id, fault)))
  /\ UNCHANGED <<collection, reqs, usedIds, removed, deleted, origin, NODE_ENV, proc>>

ServiceList(isActive, fault) ==
  /\ call' = Called("getAllRestaurants", <<>>, isActive,
                    Read(serviceGetAllRestaurants(collection, isActive, fault)))
  /\ UNCHANGED <<collection, reqs, usedIds, removed, deleted, origin, NODE_ENV, proc>>

\* The db module called directly, as the router calls it.
DbAdd(data, freshId) ==
  /\ freshId \notin usedIds
  /\ LET out == addNewRestaurant(collection, Some(data), freshId, None)
     IN /\ collection' = out.collection
        /\ usedIds' = usedIds \cup {freshId}
        /\ call' = Called("db.addNewRestaurant", freshId, Some(data),
                          [result |-> out.result, touched |-> Ids(out.result.docs)])
  /\ UNCHANGED <<reqs, removed, deleted, origin, NODE_ENV, proc>>

DbUpdate(Id, data) ==
  /\ LET out == updateRestaurantById(collection, Some(data), Id, None)
     IN /\ collection' = out.collection
        /\ call' = Called("db.updateRestaurantById", Id, Some(data),
                          [result |-> out.result, touched |-> Ids(out.result.docs)])
  /\ UNCHANGED <<reqs, usedIds, removed, deleted, origin, NODE_ENV, proc>>

DbDelete(Id) ==
  /\ LET out == deleteRestaurantById(collection, Id, None)
     IN /\ collection' = out.collection
        /\ call' = Called("db.deleteRestaurantById", Id, None, Read(out.result))
  /\ UNCHANGED <<reqs, usedIds, removed, deleted, origin, NODE_ENV, proc>>

DbGet(Id) ==
  /\ call' = Called("db.getRestaurantById", Id, None,
                    Read(getRestaurantById(collection, Id, None)))
  /\ UNCHANGED <<collection, reqs, usedIds, removed, deleted, origin, NODE_ENV, proc>>

DbList ==
  /\ call' = Called("db.getAllRestaurants", <<>>, None,
                    Read(getAllRestaurants(collection, PageDefault, PerPageDefault,
                                           None, None)))
  /\ UNCHANGED <<collection, reqs, usedIds, removed, deleted, origin, NODE_ENV, proc>>

InitService ==
  /\ \E stored \in SUBSET {IdPrefix \o <<"1">>} :
       /\ collection = [i \in ObjectIds |->
                          IF i \in stored THEN Some(CastDocument(BaseBody)) ELSE None]
       /\ usedIds = stored
  /\ reqs = [c \in Clients |-> IdleReq]
  /\ removed = {}
  /\ deleted = {}
  /\ origin = [i \in ObjectIds |-> None]
  /\ NODE_ENV = "production"
  /\ proc = NoProcess
  /\ call = NoCall

NextService ==
  \/ \E data \in ServiceCreates, i \in ClientIds, fault \in ServiceFaults :
       ServiceCreate(data, i, fault)
  \/ \E Id \in ServiceIds, data \in ServiceUpdates, fault \in ServiceFaults :
       ServiceUpdate(Id, data, fault)
  \/ \E Id \in ServiceIds, fault \in ServiceFaults : ServiceDelete(Id, fault)
  \/ \E Id \in ServiceIds, fault \in ServiceFaults : ServiceGet(Id, fault)
  \/ \E isActive \in ServiceFilters, fault \in ServiceFaults :
       ServiceList(isActive, fault)
  \/ \E i \in ClientIds : DbAdd(BaseBody, i)
  \/ \E Id \in ClientIds : DbUpdate(Id, BaseBody)
  \/ \E Id \in ClientIds : DbDelete(Id)
  \/ \E Id \in ClientIds : DbGet(Id)
  \/ DbList

SpecService == InitService /\ [][NextService]_vars

\* ------------------------------------------------------------------ claims
Done(c) == reqs[c].pc = "done"
\* The handler called the db module and the storage engine did not fail.
Served(c) == Done(c) /\ reqs[c].called /\ reqs[c].result.cause # "storage"
\* The body has keys and its document breaks a field rule of the schema.
BreaksFieldRule(body) ==
  body # None /\ HasKeys(The(body)) /\ ValidateDocument(CastDocument(The(body))) # <<>>
PassesFieldRules(body) ==
  body # None /\ HasKeys(The(body)) /\ ValidateDocument(CastDocument(The(body))) = <<>>

\* C1: every POST with a non-empty body that breaks a field rule is answered
\* 400 with a message containing "Validation error", and adds no record.
C1_InvalidPostIs400 ==
  \A c \in Clients :
    Done(c) /\ reqs[c].method = "POST" /\ BreaksFieldRule(reqs[c].body)
      => /\ reqs[c].res.status = 400
         /\ Includes(reqs[c].res.message, Words(<<"Validation", "error">>))
         /\ ~reqs[c].wrote

\* C2: a create that fails on a uniqueness conflict (code 11000) is answered
\* 400, never 500.
C2_DuplicatePostIs400 ==
  \A c \in Clients :
    Done(c) /\ reqs[c].method = "POST" /\ reqs[c].result.cause = "duplicate"
      => reqs[c].res.status = 400

\* C3: a PUT with a well-formed id and a non-empty body is answered 404
\* exactly when the repository reports no such record, 400 exactly when it
\* reports a field-validation failure, and 200 otherwise.
C3_PutStatusByOutcome ==
  \A c \in Clients :
    Served(c) /\ reqs[c].method = "PUT" /\ reqs[c].result.cause # "immutable"
      => /\ reqs[c].res.status = 404 <=> reqs[c].result.cause = "notfound"
         /\ reqs[c].res.status = 400 <=> reqs[c].result.cause = "validation"
         /\ reqs[c].res.status = 200 <=>
              reqs[c].result.cause \notin {"notfound", "validation"}

\* The document that GET /:id returned for a record that a POST of body made
\* and nothing has replaced since.
GetOfPosted(c) ==
  /\ Done(c) /\ reqs[c].method = "GET" /\ reqs[c].res.status = 200
  /\ origin[ToObjectId(reqs[c].id)] # None
Got(c) == reqs[c].res.data[1].doc
Posted(c) == The(origin[ToObjectId(reqs[c].id)])
TextKeys == {"name", "borough", "cuisine", "phone", "website", "priceRange"}

AfterDelete(c, method) ==
  /\ Done(c) /\ reqs[c].method = method
  /\ IsObjectIdText(reqs[c].id) /\ ToObjectId(reqs[c].id) \in reqs[c].late
  /\ reqs[c].result.cause # "storage"
NoDeletedListed(c) ==
  Done(c) /\ reqs[c].method = "LIST"
    => \A k \in 1..Len(reqs[c].res.data) : reqs[c].res.data[k]._id \notin reqs[c].late

\* C5 as stated: after a DELETE answered 204, every later DELETE, GET and PUT
\* of that id is answered 404 and no later list returns the record.
C5_DeletedIs404 ==
  \A c \in Clients :
    /\ \A m \in {"DELETE", "GET", "PUT"} : AfterDelete(c, m) => reqs[c].res.status = 404
    /\ NoDeletedListed(c)

\* C5 amended: after a DELETE answered 204, every later DELETE and GET of
\* that id, and every later PUT of it whose body is non-empty and passes the
\* field rules, is answered 404; no later PUT of it is answered 200 or
\* changes the collection; no later list returns the record.
C5_DeletedStaysDeleted ==
  \A c \in Clients :
    /\ \A m \in {"DELETE", "GET"} : AfterDelete(c, m) => reqs[c].res.status = 404
    /\ AfterDelete(c, "PUT")
         => /\ PassesFieldRules(reqs[c].body) => reqs[c].res.status = 404
            /\ reqs[c].res.status # 200
            /\ ~reqs[c].wrote
    /\ NoDeletedListed(c)

\* C5 witness: a second DELETE of a deleted id has been answered 404.
C5_Witness ==
  \E c \in Clients : AfterDelete(c, "DELETE") /\ reqs[c].res.status = 404

\* The DELETE requests for ObjectId i that arrived while its document was
\* still stored.
Racers(i) ==
  {c \in Clients :
     /\ reqs[c].method = "DELETE" /\ reqs[c].existed
     /\ ToObjectId(reqs[c].id) = i}
Raced(i) == Cardinality(Racers(i)) >= 2 /\ \A c \in Racers(i) : Done(c)

\* C6: of two or more concurrent DELETE requests for the same stored id,
\* exactly one is answered 204, every other 404, none 500, and the record is
\* gone afterwards.
C6_OneDeleteWins ==
  \A i \in ObjectIds :
    Raced(i)
      => /\ Cardinality({c \in Racers(i) : reqs[c].res.status = 204}) = 1
         /\ \A c \in Racers(i) : reqs[c].res.status \in {204, 404}
         /\ collection[i] = None

\* C6 witness: two DELETE requests that arrived while the document was stored
\* have both been answered, one of them written in upper case.
C6_Witness ==
  \E i \in ObjectIds :
    Raced(i) /\ \E c, d \in Racers(i) : reqs[c].id # reqs[d].id

\* A list request that has been answered.
Listed(c) == Done(c) /\ reqs[c].method = "LIST"

PageMessages == {MsgPageNotInteger, MsgPageTooSmall, MsgPageTooLarge}
PerPageMessages == {MsgPerPageNotInteger, MsgPerPageTooSmall, MsgPerPageTooLarge}
BoroughMessages ==
  {MsgBoroughNotString, MsgBoroughEmpty, MsgBoroughTooLong, MsgBoroughChars}
IsUnknownParamsMessage(message) ==
  /\ Len(message) >= 5
  /\ SubSeq(message, 1, 5) = Words(<<"Invalid", "query", "parameters:">>)

\* What the specification says of a query, parameter by parameter.
HasUnknownParams(q) == Len(q.extraParams) > 0
DigitsOnly(o) == o # None /\ IsDigits(The(o))
PageBad(q) ==
  /\ q.page # None
  /\ ~DigitsOnly(q.page) \/ ParseInt(The(q.page)) < 1 \/ ParseInt(The(q.page)) > 10000
PerPageBad(q) ==
  /\ q.perPage # None
  /\ \/ ~DigitsOnly(q.perPage)
     \/ ParseInt(The(q.perPage)) < 1
     \/ ParseInt(The(q.perPage)) > 100
BoroughBad(q) ==
  /\ q.borough # None
  /\ \/ ~The(q.borough).isString
     \/ Trim(The(q.borough).text) = <<>>
     \/ Len(Trim(The(q.borough).text)) > 50
     \/ ~BoroughMatch(Trim(The(q.borough).text))

\* C7: a list query with a key outside {page, perPage, borough} is answered
\* 400 with one message that names every unknown key and the three allowed
\* ones, whatever page, perPage and borough are, and db.getAllRestaurants is
\* not called.
C7_UnknownParamsIs400 ==
  \A c \in Clients :
    Listed(c) /\ HasUnknownParams(reqs[c].query)
      => LET q == reqs[c].query
             message == reqs[c].res.message
         IN /\ reqs[c].res.status = 400
            /\ ~reqs[c].res.success
            /\ ~reqs[c].called
            /\ IsUnknownParamsMessage(message)
            /\ message \notin PageMessages \cup PerPageMessages \cup BoroughMessages
            /\ \A k \in 1..Len(q.extraParams) : Includes(message, <<q.extraParams[k]>>)
            /\ \A name \in {"page", "perPage", "borough"} : Includes(message, <<name>>)

\* C7 witness: a query with two unknown keys and page=0 has been answered
\* with the unknown-parameter message.
C7_Witness ==
  \E c \in Clients :
    /\ Listed(c)
    /\ Len(reqs[c].query.extraParams) = 2
    /\ reqs[c].query.page = Some(<<"0">>)
    /\ IsUnknownParamsMessage(reqs[c].res.message)

\* The check whose message a 400 answer carries.
MessageOf(message) ==
  IF IsUnknownParamsMessage(message) THEN "unknown"
  ELSE IF message \in PageMessages THEN "page"
  ELSE IF message \in PerPageMessages THEN "perPage"
  ELSE IF message \in BoroughMessages THEN "borough"
  ELSE "other"
\* The first check, in the order unknown-parameter, page, perPage, borough,
\* that the query fails.
FirstFailing(q) ==
  IF HasUnknownParams(q) THEN "unknown"
  ELSE IF PageBad(q) THEN "page"
  ELSE IF PerPageBad(q) THEN "perPage"
  ELSE IF BoroughBad(q) THEN "borough"
  ELSE "none"
FailingChecks(q) ==
  {k \in {"unknown", "page", "perPage", "borough"} :
     \/ k = "unknown" /\ HasUnknownParams(q)
     \/ k = "page" /\ PageBad(q)
     \/ k = "perPage" /\ PerPageBad(q)
     \/ k = "borough" /\ BoroughBad(q)}

\* C8: when a list query fails several checks at once, the answer is 400 and
\* its message is that of the first failing check in the order
\* unknown-parameter, page, perPage, borough.
C8_FirstFailingCheckAnswers ==
  \A c \in Clients :
    Listed(c) /\ Cardinality(FailingChecks(reqs[c].query)) >= 2
      => /\ reqs[c].res.status = 400
         /\ ~reqs[c].called
         /\ MessageOf(reqs[c].res.message) = FirstFailing(reqs[c].query)

\* C8 witness: page=0 with perPage=0 and borough=1 has been answered with
\* the message of the page check.
C8_Witness ==
  \E c \in Clients :
    /\ Listed(c)
    /\ reqs[c].query = Query(Some(<<"0">>), Some(<<"0">>), Some(Text(<<"1">>)), <<>>)
    /\ reqs[c].res.message = MsgPageTooSmall

\* C9: without unknown parameters, a page that is not digits-only, or parses
\* below 1, or parses above 10000, is answered 400 with a message about the
\* page parameter, a different one for each of the three cases; a
\* digits-only page from 1 to 10000 gets no page message.
C9_PageRange ==
  /\ Cardinality(PageMessages) = 3
  /\ \A c \in Clients :
       Listed(c) /\ ~HasUnknownParams(reqs[c].query) /\ reqs[c].query.page # None
         => LET page == The(reqs[c].query.page)
                res == reqs[c].res
                expected ==
                  IF ~IsDigits(page) THEN Some(MsgPageNotInteger)
                  ELSE IF ParseInt(page) < 1 THEN Some(MsgPageTooSmall)
                  ELSE IF ParseInt(page) > 10000 THEN Some(MsgPageTooLarge)
                  ELSE None
            IN IF expected # None
               THEN /\ res.status = 400
                    /\ ~reqs[c].called
                    /\ res.message = The(expected)
                    /\ Includes(res.message, Words(<<"Page", "parameter">>))
               ELSE res.message \notin PageMessages

\* C9 witness: page 10001 has been refused as too large.
C9_Witness ==
  \E c \in Clients :
    /\ Listed(c)
    /\ reqs[c].query.page = Some(Decimal(PageMax + 1))
    /\ reqs[c].res.status = 400
    /\ reqs[c].res.message = MsgPageTooLarge

\* C10: without unknown parameters and with page absent or valid, a perPage
\* that is not digits-only or parses outside 1..100 is answered 400 with a
\* message about the perPage parameter; a digits-only perPage from 1 to 100
\* gets no perPage message.
C10_PerPageRange ==
  \A c \in Clients :
    /\ Listed(c)
    /\ ~HasUnknownParams(reqs[c].query) /\ ~PageBad(reqs[c].query)
    /\ reqs[c].query.perPage # None
    => LET perPage == The(reqs[c].query.perPage)
           res == reqs[c].res
       IN IF ~IsDigits(perPage) \/ ParseInt(perPage) < 1 \/ ParseInt(perPage) > 100
          THEN /\ res.status = 400
               /\ ~reqs[c].called
               /\ res.message \in PerPageMessages
               /\ Includes(res.message, Words(<<"perPage", "parameter">>))
          ELSE res.message \notin PerPageMessages

\* C10 witness: perPage 0 with no page has been refused with a perPage
\* message.
C10_Witness ==
  \E c \in Clients :
    /\ Listed(c)
    /\ reqs[c].query.page = None
    /\ reqs[c].query.perPage = Some(<<"0">>)
    /\ reqs[c].res.status = 400
    /\ reqs[c].res.message \in PerPageMessages

\* A list request whose unknown-parameter, page and perPage checks pass and
\* whose borough is a string.
BoroughChecked(c) ==
  /\ Listed(c)
  /\ ~HasUnknownParams(reqs[c].query)
  /\ ~PageBad(reqs[c].query) /\ ~PerPageBad(reqs[c].query)
  /\ reqs[c].query.borough # None
  /\ The(reqs[c].query.borough).isString
BoroughRuleMessages == {MsgBoroughEmpty, MsgBoroughTooLong, MsgBoroughChars}
AllowedBoroughChars == Letters \cup WhiteSpace \cup {"-", "'"}

\* C11: with the earlier checks passing, a borough that is empty after
\* trimming, longer than 50 characters after trimming, or holds a character
\* other than a letter, whitespace, hyphen or apostrophe is answered 400 and
\* db.getAllRestaurants is not called; each of the three rules has a message
\* of its own.
C11_BoroughRules ==
  /\ Cardinality(BoroughRuleMessages) = 3
  /\ \A c \in Clients :
       BoroughChecked(c)
         => LET trimmed == Trim(The(reqs[c].query.borough).text)
                res == reqs[c].res
                empty == trimmed = <<>>
                long == Len(trimmed) > 50
                chars == \E i \in 1..Len(trimmed) : trimmed[i] \notin AllowedBoroughChars
            IN /\ empty \/ long \/ chars
                    => /\ res.status = 400
                       /\ ~reqs[c].called
                       /\ res.message \in BoroughRuleMessages
               /\ empty => res.message = MsgBoroughEmpty
               /\ long => res.message = MsgBoroughTooLong
               /\ chars /\ ~long => res.message = MsgBoroughChars

\* C11 witness: a borough of 51 letters has been refused as too long.
C11_Witness ==
  \E c \in Clients :
    /\ BoroughChecked(c)
    /\ The(reqs[c].query.borough).text = Repeat("a", BoroughMaxLength + 1)
    /\ reqs[c].res.status = 400
    /\ reqs[c].res.message = MsgBoroughTooLong

\* A list request that has been answered 200.
ListedOk(c) == Listed(c) /\ reqs[c].res.status = 200

\* The triple the specification gives for a query that passes validation.
NormalizedTriple(q) ==
  [page |-> IF q.page = None THEN 1 ELSE ParseInt(The(q.page)),
   perPage |-> IF q.perPage = None THEN 10 ELSE ParseInt(The(q.perPage)),
   borough |-> IF q.borough = None THEN None ELSE Some(Trim(The(q.borough).text))]

\* C12: on a successful list request db.getAllRestaurants is called with the
\* parsed page or 1, the parsed perPage or 10 and the trimmed borough or
\* none; the query field of the answer echoes that triple, and the filter
\* field carries the borough exactly when one was applied.
C12_NormalizedTriple ==
  \A c \in Clients :
    ListedOk(c)
      => LET triple == NormalizedTriple(reqs[c].query)
             res == reqs[c].res
         IN /\ reqs[c].called
            /\ reqs[c].args = triple
            /\ res.query = triple
            /\ res.pagination.page = triple.page
            /\ res.pagination.perPage = triple.perPage
            /\ res.filter = triple.borough
            /\ res.filter # None <=> reqs[c].query.borough # None

\* C12 witness: a query with a padded borough and neither page nor perPage
\* has been answered 200, called with page 1, perPage 10 and the trimmed
\* borough.
C12_Witness ==
  \E c \in Clients :
    /\ ListedOk(c)
    /\ reqs[c].query = Query(None, None, Some(Text(<<" ", "m", "A", "n", "\t">>)), <<>>)
    /\ reqs[c].args = [page |-> 1, perPage |-> 10, borough |-> Some(<<"m", "A", "n">>)]

\* C13: on every successful list answer pagination.totalReturned is the
\* number of records in data, it is at most perPage, and pagination.hasMore
\* is true exactly when totalReturned equals perPage; borough=Manhattan with
\* page 1 and perPage 5 over three matching and ten other records returns
\* three records and hasMore false.
C13_PaginationCounts ==
  \A c \in Clients :
    ListedOk(c)
      => LET res == reqs[c].res
             perPage == NormalizedTriple(reqs[c].query).perPage
         IN /\ res.pagination.totalReturned = Len(res.data)
            /\ Len(res.data) <= perPage
            /\ res.pagination.hasMore <=> (Len(res.data) = perPage)
            /\ /\ collection = ManhattanStore
               /\ reqs[c].query =
                    Query(Some(<<"1">>), Some(<<"5">>), Some(Text(Manhattan)), <<>>)
               => Len(res.data) = 3 /\ ~res.pagination.hasMore

\* C13 witness: the Manhattan request has been answered with three records.
C13_Witness ==
  \E c \in Clients :
    /\ ListedOk(c)
    /\ collection = ManhattanStore
    /\ Cardinality(Stored(collection)) = 13
    /\ reqs[c].query = Query(Some(<<"1">>), Some(<<"5">>), Some(Text(Manhattan)), <<>>)
    /\ reqs[c].res.pagination.totalReturned = 3

\* The ids of a list answer, in the order of the answer.
IdsInOrder(c) == [k \in 1..Len(reqs[c].res.data) |-> reqs[c].res.data[k]._id]
Ascending(ids) == \A k \in 1..(Len(ids) - 1) : IdLess(ids[k], ids[k + 1])
\* Two list requests of the same filter, both answered 200 over the same
\* store.
SameListing(c, d) ==
  /\ c # d /\ ListedOk(c) /\ ListedOk(d)
  /\ reqs[c].query.borough = reqs[d].query.borough
PageOf(c) == NormalizedTriple(reqs[c].query).page
PerPageOf(c) == NormalizedTriple(reqs[c].query).perPage

\* C14: with no write in between, page k and page k+1 of the same perPage
\* are disjoint, each ascending by id, page k before page k+1; and the two
\* halves of an aligned page of twice the perPage are exactly page 2j-1 and
\* page 2j, so that their concatenation is the larger page.
C14_PagesTile ==
  \A c, d \in Clients :
    SameListing(c, d)
      => LET first == IdsInOrder(c)
             second == IdsInOrder(d)
             n == PerPageOf(d)
         IN /\ Ascending(first) /\ Ascending(second)
            /\ PerPageOf(c) = n /\ PageOf(d) = PageOf(c) + 1
                 => /\ {first[k] : k \in 1..Len(first)}
                         \cap {second[k] : k \in 1..Len(second)} = {}
                    /\ \A k \in 1..Len(first), l \in 1..Len(second) :
                         IdLess(first[k], second[l])
                    /\ second # <<>> => Len(first) = n
            /\ PerPageOf(c) = 2 * n /\ PageOf(d) = 2 * PageOf(c) - 1
                 => second = SubSeq(first, 1, IF Len(first) < n THEN Len(first) ELSE n)
            /\ PerPageOf(c) = 2 * n /\ PageOf(d) = 2 * PageOf(c)
                 => second = SubSeq(first, n + 1, Len(first))

\* C14 witness: page 1 with perPage 4 has returned four records and page 2
\* with perPage 2 the last two of them.
C14_Witness ==
  /\ SameListing(1, 2)
  /\ PageOf(1) = 1 /\ PerPageOf(1) = 4 /\ Len(reqs[1].res.data) = 4
  /\ PageOf(2) = 2 /\ PerPageOf(2) = 2 /\ Len(reqs[2].res.data) = 2
  /\ IdsInOrder(2) = SubSeq(IdsInOrder(1), 3, 4)

\* A list request for which db.getAllRestaurants has settled.
ListSettled(c) == reqs[c].method = "LIST" /\ reqs[c].pc \in {"reply", "done"} /\ reqs[c].called
\* The stored records a filter selects: all without a filter, else those
\* whose borough or address.borough holds the filter text, case ignored.
HoldsText(o, text) == o # None /\ Includes(Lower(The(o)), Lower(text))
Candidates(borough) ==
  {i \in Stored(collection) :
     \/ borough = None
     \/ HoldsText(The(collection[i]).borough, The(borough))
     \/ HoldsText(The(collection[i]).address.borough, The(borough))}
\* The position, counted from 0, of a candidate among the candidates in
\* ascending id order.
Position(i, among) == Cardinality({j \in among : IdLess(j, i)})

\* C15: db.getAllRestaurants returns, in ascending id order, exactly the
\* matching records at positions (page-1)*perPage to page*perPage-1, each with
\* its stored document; when nothing matches or the page lies beyond the
\* data it returns the empty list and the endpoint answers 200 with empty
\* data.
C15_PageIsSlice ==
  \A c \in Clients :
    ListSettled(c)
      => LET args == reqs[c].args
             docs == reqs[c].result.docs
             among == Candidates(args.borough)
             from == (args.page - 1) * args.perPage
             upTo == args.page * args.perPage - 1
             ids == [k \in 1..Len(docs) |-> docs[k]._id]
         IN /\ reqs[c].result.ok
            /\ Ascending(ids)
            /\ {ids[k] : k \in 1..Len(ids)}
                 = {i \in among : Position(i, among) \in from..upTo}
            /\ \A k \in 1..Len(docs) : docs[k].doc = The(collection[docs[k]._id])
            /\ among = {} \/ from >= Cardinality(among) => docs = <<>>
            /\ Done(c) => reqs[c].res.status = 200 /\ reqs[c].res.data = docs

\* C15 witness: page 4 with perPage 5 of a store of 13 records has been
\* answered 200 with no data.
C15_Witness ==
  \E c \in Clients :
    /\ ListedOk(c)
    /\ Cardinality(Candidates(reqs[c].args.borough)) = 13
    /\ reqs[c].args.page = 4 /\ reqs[c].args.perPage = 5
    /\ reqs[c].res.data = <<>>

\* C16: when a borough filter is applied, the records of the answer are
\* among those whose borough or address.borough holds the filter text as a
\* substring, case ignored, and page 1 with room for the whole store returns
\* exactly those; for the filters that pass validation the regular
\* expression of the code selects the same records as the literal text.
C16_BoroughSubstring ==
  \A c \in Clients :
    ListedOk(c) /\ reqs[c].args.borough # None
      => LET among == Candidates(reqs[c].args.borough)
             got == Ids(reqs[c].res.data)
         IN /\ got \subseteq among
            /\ /\ reqs[c].args.page = 1
               /\ reqs[c].args.perPage >= Cardinality(Stored(collection))
               => got = among

\* C16 witness: the filter RON, no substring of any borough as written, has
\* returned the records of Bronx, whose address.borough is another.
C16_Witness ==
  \E c \in Clients :
    /\ ListedOk(c)
    /\ reqs[c].args.borough = Some(<<"R", "O", "N">>)
    /\ Ids(reqs[c].res.data) = ClientIds
    /\ \A i \in ClientIds : The(collection[i]).borough = Some(Bronx)

\* A PUT for a record that was stored when it arrived, answered after the
\* db module was called with a working storage engine.
PutOfStored(c) == Served(c) /\ reqs[c].method = "PUT" /\ reqs[c].existed

\* C17: a PUT answered 200 leaves as the stored document exactly the
\* document of its body, nothing of the previous version; a PUT whose body
\* is not a complete valid record is answered 400 and leaves the stored
\* record as it was.
C17_PutReplacesOrRejects ==
  \A c \in Clients :
    PutOfStored(c)
      => /\ reqs[c].res.status = 200
              => collection[ToObjectId(reqs[c].id)]
                   = Some(CastDocument(The(reqs[c].body)))
         /\ BreaksFieldRule(reqs[c].body)
              => reqs[c].res.status = 400 /\ ~reqs[c].wrote

\* A GET, PUT or DELETE with a well-formed id for which nothing was stored,
\* answered after the db module was called with a working storage engine.
OfMissing(c) ==
  /\ Served(c)
  /\ reqs[c].method \in {"GET", "PUT", "DELETE"}
  /\ IsObjectIdText(reqs[c].id)
  /\ ~reqs[c].existed
Is404WithId(c) ==
  /\ reqs[c].res.status = 404
  /\ ~reqs[c].res.success
  /\ Includes(reqs[c].res.message, reqs[c].id)
  /\ ~reqs[c].wrote
  /\ collection[ToObjectId(reqs[c].id)] = None

\* C18 as stated: GET, PUT with a non-empty body and DELETE of a well-formed
\* id that is not stored are answered 404 with success false and a message
\* that contains the id, and the store is unchanged.
C18_MissingIs404 ==
  \A c \in Clients : OfMissing(c) => Is404WithId(c)

\* C18, amended: the same for GET, DELETE and a PUT whose body passes the
\* field rules.
C18_MissingIs404ForValidBody ==
  \A c \in Clients :
    OfMissing(c) /\ (reqs[c].method = "PUT" => PassesFieldRules(reqs[c].body))
      => Is404WithId(c)

\* C18 witness: GET of 507f1f77bcf86cd799439011 on an empty store has been
\* answered 404.
C18_Witness ==
  \E c \in Clients :
    /\ OfMissing(c) /\ reqs[c].method = "GET"
    /\ reqs[c].id = IdPrefix \o <<"1">>
    /\ Stored(collection) = {}
    /\ reqs[c].res.status = 404

\* The text is exactly 24 hexadecimal characters.
Is24Hex(id) ==
  /\ Len(id) = 24
  /\ \A k \in 1..Len(id) :
       id[k] \in {"0", "1", "2", "3", "4", "5", "6", "7", "8", "9",
                  "a", "b", "c", "d", "e", "f", "A", "B", "C", "D", "E", "F"}

\* C19: GET, PUT and DELETE with an id that is not exactly 24 hexadecimal
\* characters are answered 400 "Invalid restaurant ID format" and the db
\* module is not called; for PUT this holds with an empty or absent body
\* too, the id being checked before the body.
C19_MalformedIdIs400 ==
  \A c \in Clients :
    Done(c) /\ reqs[c].method \in {"GET", "PUT", "DELETE"} /\ ~Is24Hex(reqs[c].id)
      => /\ reqs[c].res.status = 400
         /\ ~reqs[c].res.success
         /\ reqs[c].res.message = Words(<<"Invalid", "restaurant", "ID", "format">>)
         /\ ~reqs[c].called
         /\ ~reqs[c].wrote

\* C19 witness: a PUT of not-a-valid-id with a body without keys has been
\* answered with the message of the id check.
C19_Witness ==
  \E c \in Clients :
    /\ Done(c) /\ reqs[c].method = "PUT"
    /\ reqs[c].id = <<"n", "o", "t", "-", "a", "-", "v", "a", "l", "i", "d", "-", "i", "d">>
    /\ reqs[c].body = Some(EmptyBody)
    /\ reqs[c].res.message = Words(<<"Invalid", "restaurant", "ID", "format">>)

\* C20: a POST or PUT whose body is absent or has no keys is answered 400,
\* db.addNewRestaurant or db.updateRestaurantById is not called for it, and
\* the store is unchanged.
C20_EmptyBodyIs400 ==
  \A c \in Clients :
    /\ Done(c) /\ reqs[c].method \in {"POST", "PUT"}
    /\ reqs[c].body \in {None, Some(EmptyBody)}
    => /\ reqs[c].res.status = 400
       /\ ~reqs[c].res.success
       /\ ~reqs[c].called
       /\ ~reqs[c].wrote

\* C20 witness: a POST with a body without keys has been answered 400 with
\* the message of the body check.
C20_Witness ==
  \E c \in Clients :
    /\ Done(c) /\ reqs[c].method = "POST"
    /\ reqs[c].body = Some(EmptyBody)
    /\ reqs[c].res.status = 400
    /\ reqs[c].res.message
         = Words(<<"Request", "body", "is", "required", "to", "create", "a", "restaurant">>)

\* The storage engine failed unexpectedly under the request.
StorageFailed(c) == Done(c) /\ reqs[c].called /\ reqs[c].result.cause = "storage"
\* The answer carries the text of a storage error, in its message or in its
\* error field.
LeaksStorageText(res) ==
  \E m \in FaultMessages :
    \/ Includes(res.message, m)
    \/ res.error # None /\ Includes(The(res.error), m)

\* C21: when the storage engine fails unexpectedly under any operation the
\* answer is 500 with a generic message, and in production mode the answer
\* does not contain the text of the storage error, whatever its words.
C21_StorageErrorIs500 ==
  \A c \in Clients :
    StorageFailed(c)
      => /\ reqs[c].res.status = 500
         /\ ~reqs[c].res.success
         /\ \A m \in FaultMessages : ~Includes(reqs[c].res.message, m)
         /\ NODE_ENV = "production" => ~LeaksStorageText(reqs[c].res)

\* The status of a successful operation.
SuccessStatus(method) ==
  CASE method = "POST" -> 201
    [] method = "DELETE" -> 204
    [] OTHER -> 200

C23_ListenAfterInitialize ==
  proc.program = "server" =>
    /\ proc.listening
         => proc.MONGODB_URI /\ proc.connect = Some(TRUE) /\ proc.initialized
    /\ proc.pc # "start" /\ (~proc.MONGODB_URI \/ proc.connect = Some(FALSE))
         => proc.exit = Some(1) /\ ~proc.listening
\* The server listens after a connection attempt that succeeded.
C23_Witness ==
  /\ proc.program = "server" /\ proc.listening
  /\ proc.connect = Some(TRUE) /\ proc.exit = None
\* The connection attempt failed: the process is gone and never listened.
C23_WitnessFailed ==
  /\ proc.program = "server" /\ proc.connect = Some(FALSE)
  /\ proc.exit = Some(1) /\ ~proc.listening

\* C26: the sample-data scripts close the database connection on every path
\* once it was opened, also when reading the file, deleting or inserting
\* fails: no script ends with a connection it opened still open and
\* connection.close() never called.
C26_ScriptsCloseConnection ==
  proc.program \in Scripts /\ proc.exit # None /\ proc.connect = Some(TRUE)
    => proc.closeCalled \/ proc.readyState = "disconnected"

\* C27: after db.close() has returned without throwing the connection is not
\* open, whatever the isConnected flag was, and so after every SIGINT or
\* SIGTERM shutdown that exits with code 0.
C27_CloseLeavesClosed ==
  proc.program = "server" =>
    /\ proc.closeReturned => proc.readyState # "connected"
    /\ proc.exit = Some(0) => proc.readyState # "connected"

\* The record keeps the rules of the schema that the claim names.
KeepsFieldRules(doc) ==
  /\ doc.cuisine # None /\ The(doc.cuisine) \in CuisineEnum
  /\ doc.priceRange # None /\ The(doc.priceRange) \in PriceRangeEnum
  /\ ~Missing(doc.phone) => PhoneMatch(The(doc.phone))
  /\ ~Missing(doc.email) => EmailMatch(The(doc.email))
  /\ ~Missing(doc.website) => WebsiteMatch(The(doc.website))
HasEveryDay(doc) == \A d \in Days : doc.hours[d] # None

\* C24: in every state reachable by create, update and delete operations of
\* the db module and of restaurantService, every stored record has a cuisine
\* and a priceRange of their enumerations, phone, email and website values
\* that match their patterns when present, and all seven day keys of hours.
\* (The collection maps an id to one record, so ids are unique by
\* construction.)
C24_StoredRecordsValid ==
  \A i \in Stored(collection) :
    KeepsFieldRules(The(collection[i])) /\ HasEveryDay(The(collection[i]))
\* The part of C24 that holds: cuisine, priceRange and the patterns.
C24_StoredRecordsKeepFieldRules ==
  \A i \in Stored(collection) : KeepsFieldRules(The(collection[i]))

\* The last call was restaurantService.deleteRestaurant.
SoftDeleted == call.op = "deleteRestaurant"
\* The record the call named was there when the call was made.
Existed == IsObjectIdText(call.id) /\ call.before[ToObjectId(call.id)] # None
\* The collection is as before the call but for isActive of the named record.
OnlyIsActiveCleared ==
  collection = [call.before EXCEPT ![ToObjectId(call.id)] =
                  Some([The(@) EXCEPT !.isActive = Some(FALSE)])]
\* What the soft delete returns and what the reads show afterwards.
SoftDeleteOutcome ==
  /\ SoftDeleted =>
       /\ Existed /\ call.result.cause # "storage" => call.result.ok
       /\ call.result.ok => Existed /\ OnlyIsActiveCleared
       /\ ~call.result.ok => collection = call.before /\ call.touched = {}
       /\ call.result.cause = "notfound"
            => ~Existed /\ Includes(call.result.error.message, MsgNotFound)
       /\ ~Existed /\ IsObjectIdText(call.id) /\ call.result.cause # "storage"
            => call.result.cause = "notfound"
  /\ call.op \in {"getRestaurantById", "db.getRestaurantById"}
       /\ IsObjectIdText(call.id) /\ collection[ToObjectId(call.id)] # None
       /\ call.result.cause # "storage"
       => call.result.docs
            = <<Entry(ToObjectId(call.id), The(collection[ToObjectId(call.id)]))>>
  /\ call.op \in {"getAllRestaurants", "db.getAllRestaurants"}
       /\ call.data = None /\ call.result.ok
       => Ids(call.result.docs) = Stored(collection)

C25_WitnessListed ==
  /\ call.op = "getAllRestaurants" /\ call.data = None /\ call.result.ok
  /\ \E k \in 1..Len(call.result.docs) : call.result.docs[k].doc.isActive = Some(FALSE)

Names(c, i) ==
  reqs[c].method # "" /\ IsObjectIdText(reqs[c].id) /\ ToObjectId(reqs[c].id) = i
\* A PUT p with a body that reached the db module and a DELETE d, both of the
\* ObjectId i that was stored when each arrived, no other request of i, both
\* answered.
PutRacedDelete(p, d, i) ==
  /\ reqs[p].method = "PUT" /\ reqs[d].method = "DELETE"
  /\ Names(p, i) /\ Names(d, i)
  /\ \A e \in Clients \ {p, d} : ~Names(e, i)
  /\ reqs[p].existed /\ reqs[d].existed
  /\ reqs[p].called
  /\ Done(p) /\ Done(d)

C29_WitnessPutFirst ==
  \E i \in ObjectIds : \E p, d \in Clients :
    PutRacedDelete(p, d, i) /\ reqs[p].res.status = 200 /\ reqs[d].res.status = 204

\* The handler of slot c, the list handler or the browse form handler, has
\* called db.getAllRestaurants.
CalledGetAll(c) == reqs[c].method \in {"LIST", "BROWSE"} /\ reqs[c].called
\* null, or a trimmed non-empty text of at most 50 letters, whitespace,
\* hyphens and apostrophes.
BoroughArgOk(borough) ==
  \/ borough = None
  \/ LET b == The(borough)
     IN /\ b # <<>> /\ Trim(b) = b /\ Len(b) <= 50
        /\ \A k \in 1..Len(b) : b[k] \in AllowedBoroughChars

\* C30: every call of db.getAllRestaurants by the JSON list handler or by the
\* browse form handler passes a page in 1..10000, a perPage in 1..100 and a
\* borough that is null or a trimmed non-empty text of at most 50 allowed
\* characters; the range checks inside db.getAllRestaurants never fail for
\* these calls.
C30_GetAllArgsInRange ==
  \A c \in Clients :
    CalledGetAll(c)
      => /\ reqs[c].args.page \in 1..10000
         /\ reqs[c].args.perPage \in 1..100
         /\ BoroughArgOk(reqs[c].args.borough)
         /\ reqs[c].result.cause # "argument"
\* The browse form handler has called with the largest page and a borough.
C30_Witness ==
  \E c \in Clients :
    /\ reqs[c].method = "BROWSE" /\ Done(c) /\ reqs[c].res.status = 200
    /\ reqs[c].args.page = 10000 /\ reqs[c].args.borough # None
\* The list handler has called with the largest perPage.
C30_WitnessList ==
  \E c \in Clients :
    /\ reqs[c].method = "LIST" /\ Done(c) /\ reqs[c].res.status = 200
    /\ reqs[c].args.perPage = 100

====
